---- MODULE Spec2Model ----
(***************************************************************************)
(* Noctua document viewer: the incremental thumbnail pipeline of           *)
(* PortableDocument, the thumbnail disk cache, and the application's       *)
(* message loop that drives them.                                          *)
(*                                                                         *)
(* Two specifications share the state:                                     *)
(*   Spec     the application: init, then the update handlers of           *)
(*            OpenPath / NextDocument / PrevDocument / ToggleNavBar /      *)
(*            GenerateThumbnailPage / RefreshView, with the file system    *)
(*            changing underneath;                                         *)
(*   SpecApi  the PortableDocument interface driven by an arbitrary        *)
(*            caller: open, generate_thumbnail_page(n) for any n,          *)
(*            generate_all_thumbnails, clear_cache.                        *)
(*   FairSpec Spec with weak fairness on the delivery of the scheduled     *)
(*            GenerateThumbnailPage messages (the runtime's executor runs  *)
(*            every task it holds).                                        *)
(***************************************************************************)
EXTENDS Integers, Sequences, FiniteSets, Bags, TLC

\* ------------------------------------------------------------------ bounds
MaxPages == 2      \* pages of the PDF of the folder
MaxEvents == 1     \* document loads after the first, nav bar toggles, changes of
                   \* the file system and I/O failures, taken together

\* --------------------------------------------------------------- constants
\* Render scales in hundredths.
PDF_RENDER_QUALITY == 200
PDF_THUMBNAIL_SIZE == 25

\* ------------------------------------------------------------- the folder
\* One directory, listed in sorted order as collect_supported_files does.
AllFiles == <<"a.pdf", "b.pdf", "c.png", "d.pdf">>
Files == {AllFiles[i] : i \in 1..Len(AllFiles)}
PdfFiles == {"a.pdf", "b.pdf"}

\* Files outside the folder that a caller of the document interface opens as
\* well: an SVG, and a PDF whose last page Poppler cannot deliver.
DocFiles == {"a.pdf", "c.png", "e.svg", "f.pdf"}

\* DocumentKind::from_path: dispatch on the extension.
from_path(p) ==
  CASE p \in {"a.pdf", "b.pdf", "d.pdf", "f.pdf"} -> "Portable"
    [] p = "e.svg" -> "Vector"
    [] p = "c.png" -> "Raster"
    [] OTHER -> "Unsupported"

\* get_n_pages of the parsed file; d.pdf does not parse.
PagesOf(p) ==
  CASE p \in {"a.pdf", "f.pdf"} -> MaxPages
    [] p = "b.pdf" -> MaxPages - 1
    [] OTHER -> 0

Parses(p) == p \in {"a.pdf", "b.pdf", "c.png", "e.svg", "f.pdf"}

\* document.get_page(page) gives nothing: render_page_at_scale fails for this
\* page whatever the rotation and the scale.
Unrenderable(path, page) == path = "f.pdf" /\ page = PagesOf(path) - 1 /\ page > 0

\* Option<usize>: None is -1.
None == -1

VARIABLES
  fileMtime,        \* [Files -> Nat]: mtime in seconds, 0 = no such file
  diskCache,        \* the cache directory: cache key -> file content
  document,         \* model.document
  current_path,     \* model.current_path ("" = None)
  error,            \* model.error is Some
  folder_entries,   \* model.folder_entries
  current_index,    \* model.current_index (None = -1)
  nav_bar_active,   \* core.nav_bar_active()
  pending,          \* bag of messages the runtime still has to deliver
  lastCall,         \* history: the most recent generate_thumbnail_page call
  seqCalls,         \* history: k if the calls since open were exactly 0..k-1, else -1
  lastOp,           \* history: the most recent rotate / flip / page / render operation
  budget,           \* history: document loads, and events counted against MaxEvents
  state,            \* the Viewer's State: scale, starting_offset, current_offset, cursor_grabbed_at
  view_mode,        \* model.view_mode
  pan,              \* <<model.pan_x, model.pan_y>>
  layout,           \* layout.bounds() of the viewer and renderer.measure_image(handle)
  shell,            \* the messages the last event published through shell.publish
  lastEvent,        \* history: the last event and its status
  inputs,           \* history: events counted against MaxInputs
  zoom_run,         \* history: the wheel zoom-ins in a row, and the scale they began at
  metadata          \* model.metadata: the document the cached DocumentMeta describes

viewVars == <<state, view_mode, pan, layout, shell, lastEvent, inputs, zoom_run>>

vars == <<fileMtime, diskCache, document, current_path, error, folder_entries,
          current_index, nav_bar_active, pending, lastCall, seqCalls, lastOp, budget,
          viewVars, metadata>>

appVars == <<current_path, error, folder_entries, current_index, nav_bar_active,
             pending>>

\* ------------------------------------------------ the viewer's numbers
\* f32 values are kept in fixed point: a scale in units of SCALE_EPSILON
\* (1.0 is ScaleOne), a length or an offset in units of OFFSET_EPSILON (one
\* pixel is Px). A product or quotient is rounded to the nearest unit.
ScaleOne == 10000
Px == 100
SCALE_EPSILON == 1
OFFSET_EPSILON == 1

\* Viewer::new: min_scale 0.25, max_scale 10.0, scale_step 0.10.
min_scale == 2500
max_scale == 100000
scale_step == 1000

\* AppConfig::default: scale_step 1.1, pan_step 50.0, min_scale 0.1, max_scale 8.0.
config_scale_step == 11000
config_pan_step == 5000
config_min_scale == 1000
config_max_scale == 80000

\* Option<Point>: None.
NoPoint == <<-1, -1>>

\* State::default()
State_default ==
  [scale |-> ScaleOne, starting_offset |-> <<0, 0>>, current_offset |-> <<0, 0>>,
   cursor_grabbed_at |-> NoPoint]

\* ViewMode: Fit, ActualSize, Custom(z).
ViewMode_Fit == [mode |-> "Fit", z |-> 0]
ViewMode_ActualSize == [mode |-> "ActualSize", z |-> 0]
ViewMode_Custom(z) == [mode |-> "Custom", z |-> z]

\* The viewport and the image before any event: a 10 x 10 pixel viewport
\* showing an image measured 20 x 10.
Layout0 == [bounds |-> <<10 * Px, 10 * Px>>, image |-> <<20, 10>>]

NoEvent == [ev |-> "none", y |-> 0, status |-> "Ignored"]

\* Option<DocumentMeta>: None, and the DocumentMeta extract_meta reads from the
\* file at path as it was when the document was opened.
NoMeta == [some |-> FALSE, path |-> "", ver |-> 0]

\* AppModel::new and a Viewer nobody has touched.
ViewIdle ==
  /\ metadata = NoMeta
  /\ state = State_default
  /\ view_mode = ViewMode_Fit
  /\ pan = <<0, 0>>
  /\ layout = Layout0
  /\ shell = <<>>
  /\ lastEvent = NoEvent
  /\ inputs = 0
  /\ zoom_run = [from |-> ScaleOne, n |-> 0]

\* No rotate, flip, page or render operation since the document was opened;
\* sum is the physical rotation applied to a Raster surface since open.
NoOp == [op |-> "none", arg |-> "", ok |-> TRUE, sum |-> 0]

\* ----------------------------------------------------------------- images
\* A rasterized page: which file content, which page, at which scale.
\* ver is the content version of the file the document was parsed from.
\* px is the pixel matrix, px[y + 1][x + 1] the pixel at (x, y); every source
\* rasterizes to the same 3x2 sample of distinct pixels, so that each of the
\* eight orientations of an image is a different matrix.
SourcePixels == <<<<1, 2, 3>>, <<4, 5, 6>>>>

RenderedPage(path, ver, page, scale) ==
  [path |-> path, ver |-> ver, page |-> page, scale |-> scale, px |-> SourcePixels]

\* ImageHandle::from_rgba(1, 1, [0,0,0,0]): the 1x1 transparent placeholder.
Placeholder == [path |-> "", ver |-> 0, page |-> None, scale |-> 0, px |-> <<<<0>>>>]

\* imageops::flip_horizontal: out(width - 1 - x, y) = in(x, y)
flip_horizontal(px) ==
  [y \in 1..Len(px) |-> [x \in 1..Len(px[1]) |-> px[y][Len(px[1]) + 1 - x]]]

\* imageops::flip_vertical: out(x, height - 1 - y) = in(x, y)
flip_vertical(px) ==
  [y \in 1..Len(px) |-> px[Len(px) + 1 - y]]

\* imageops::rotate90 (clockwise): out(height - 1 - y, x) = in(x, y)
rotate90(px) ==
  [y \in 1..Len(px[1]) |-> [x \in 1..Len(px) |-> px[Len(px) + 1 - x][y]]]

\* imageops::rotate180: out(width - 1 - x, height - 1 - y) = in(x, y)
rotate180(px) ==
  [y \in 1..Len(px) |-> [x \in 1..Len(px[1]) |-> px[Len(px) + 1 - y][Len(px[1]) + 1 - x]]]

\* imageops::rotate270: out(y, width - 1 - x) = in(x, y)
rotate270(px) ==
  [y \in 1..Len(px[1]) |-> [x \in 1..Len(px) |-> px[x][Len(px[1]) + 1 - y]]]

\* DynamicImage::dimensions: (width, height) in pixels; a cell of the sample
\* stands for scale pixels on each side.
image_dimensions(img) == <<Len(img.px[1]) * img.scale, Len(img.px) * img.scale>>

\* Rotation and its methods.
Rotation == {"None", "Cw90", "Cw180", "Cw270"}

\* The mutant of Rotation_rotate_cw: no step leads on from 270 degrees.
Rotation_rotate_cw_Saturates(r) ==
  CASE r = "None" -> "Cw90"
    [] r = "Cw90" -> "Cw180"
    [] r = "Cw180" -> "Cw270"
    [] r = "Cw270" -> "Cw270"

Rotation_rotate_cw(r) ==
  CASE r = "None" -> "Cw90" [] r = "Cw90" -> "Cw180"
    [] r = "Cw180" -> "Cw270" [] r = "Cw270" -> "None"

Rotation_rotate_ccw(r) ==
  CASE r = "None" -> "Cw270" [] r = "Cw270" -> "Cw180"
    [] r = "Cw180" -> "Cw90" [] r = "Cw90" -> "None"

to_degrees(r) ==
  CASE r = "None" -> 0 [] r = "Cw90" -> 90 [] r = "Cw180" -> 180 [] r = "Cw270" -> 270

FlipDirection == {"Horizontal", "Vertical"}

\* TransformState::default()
DefaultTransform == [rotation |-> "None", flip_h |-> FALSE, flip_v |-> FALSE]

\* create_image_handle_from_image: the RGBA8 pixels of the image. A rendered
\* page is already RGBA8, so its pixels are the image itself.
create_image_handle_from_image(img) == img

\* PNG file written by image.write_to(.., Png), and what image::open reads back.
PngEncode(img) == [fmt |-> "png", img |-> img]
Truncated == [fmt |-> "truncated", img |-> Placeholder]
PngDecodes(file) == file.fmt = "png"
PngDecode(file) == file.img

\* ------------------------------------------------------------- disk cache
NoKey == <<"", 0, None>>

\* The file system stamps a modification with a finer clock than the second:
\* fileMtime counts ticks, TicksPerSec of them to the second (0: no such file).
TicksPerSec == 2

\* modified().duration_since(UNIX_EPOCH).as_secs(): whole seconds, the rest dropped.
as_secs(mtime) == mtime \div TicksPerSec

\* cache_key: sha256(path ++ mtime ++ page), None when the metadata of the
\* source file cannot be read. The digest is modelled by its pre-image.
cache_key(fs, file_path, page) ==
  IF fs[file_path] = 0 THEN NoKey ELSE <<file_path, as_secs(fs[file_path]), page>>

thumbnail_path(fs, file_path, page) == cache_key(fs, file_path, page)

\* Mutant: a file at the path counts as a hit, decodable or not.
load_hits_ExistsOnly(cache, fs, file_path, page) ==
  LET cache_path == thumbnail_path(fs, file_path, page) IN
    /\ cache_path # NoKey
    /\ cache_path \in DOMAIN cache

\* load_thumbnail: None (FALSE) on no key, no file, or a file that does not decode.
load_hits(cache, fs, file_path, page) ==
  LET cache_path == thumbnail_path(fs, file_path, page) IN
    /\ cache_path # NoKey
    /\ cache_path \in DOMAIN cache
    /\ PngDecodes(cache[cache_path])

\* load_thumbnail finds a file at the path and image::open fails on it.
load_corrupt(cache, fs, file_path, page) ==
  LET cache_path == thumbnail_path(fs, file_path, page) IN
    /\ cache_path # NoKey
    /\ cache_path \in DOMAIN cache
    /\ ~PngDecodes(cache[cache_path])

load_thumbnail(cache, fs, file_path, page) ==
  create_image_handle_from_image(PngDecode(cache[thumbnail_path(fs, file_path, page)]))

\* save_thumbnail, by outcome of the I/O:
\*   "Ok"          file created and fully written, returns Some(())
\*   "CreateFail"  ensure_cache_dir or File::create fails, returns None
\*   "WriteFail"   file created (truncated), write_to fails, returns None
\*   "FlushFail"   file created, write_to returns Ok with the tail of the PNG
\*                 still in the BufWriter; the writer is dropped at the end of
\*                 the statement, the flush of the drop fails and its error is
\*                 discarded: the file is incomplete and Some(()) is returned
SaveOutcomes == {"Ok", "CreateFail", "WriteFail", "FlushFail"}

save_thumbnail(cache, fs, file_path, page, image, outcome) ==
  LET key == cache_key(fs, file_path, page) IN
    IF outcome = "CreateFail" \/ key = NoKey THEN [cache |-> cache, ok |-> FALSE]
    ELSE IF outcome = "WriteFail"
      THEN [cache |-> (key :> Truncated) @@ cache, ok |-> FALSE]
    ELSE IF outcome = "FlushFail"
      THEN [cache |-> (key :> Truncated) @@ cache, ok |-> TRUE]
      ELSE [cache |-> (key :> PngEncode(image)) @@ cache, ok |-> TRUE]

\* has_thumbnail
has_thumbnail(cache, fs, file_path, page) ==
  thumbnail_path(fs, file_path, page) \in DOMAIN cache

\* ---------------------------------------------------------------- document
\* Option<Vec<ImageHandle>>
NoThumbs == [some |-> FALSE, v |-> <<>>]

NoDoc ==
  [kind |-> "None", source_path |-> "", ver |-> 0, num_pages |-> 0,
   thumbnail_cache |-> NoThumbs, page_index |-> 0, transform |-> DefaultTransform,
   rendered |-> Placeholder, handle |-> Placeholder, current_scale |-> 0,
   width |-> 0, height |-> 0]

\* Pixmap::new(width, height) gives None: the pixmap of this scale is too large.
PixmapFails(scale) == scale > 200

\* render_document (vector.rs): rasterize at scale, then flip_h, flip_v, then
\* the rotation; the image and its final width and height.
render_document(path, ver, scale, transform) ==
  IF PixmapFails(scale)
  THEN [ok |-> FALSE, image |-> Placeholder, width |-> 0, height |-> 0]
  ELSE
    LET p0 == RenderedPage(path, ver, 0, scale).px
        p1 == IF transform.flip_h THEN flip_horizontal(p0) ELSE p0
        p2 == IF transform.flip_v THEN flip_vertical(p1) ELSE p1
        p3 == CASE transform.rotation = "Cw90" -> rotate90(p2)
                [] transform.rotation = "Cw180" -> rotate180(p2)
                [] transform.rotation = "Cw270" -> rotate270(p2)
                [] transform.rotation = "None" -> p2
        image == [RenderedPage(path, ver, 0, scale) EXCEPT !.px = p3]
    IN [ok |-> TRUE, image |-> image,
        width |-> image_dimensions(image)[1], height |-> image_dimensions(image)[2]]

\* render_page_at_scale(document, page, rotation, scale), when it succeeds: the
\* page is drawn through a Cairo context rotated about the centre of a surface
\* whose sides are swapped for 90 and 270 degrees.
render_page_at_scale(doc, page, rotation, scale) ==
  LET img == RenderedPage(doc.source_path, doc.ver, page, scale) IN
    [img EXCEPT !.px = CASE rotation = "None" -> @
                         [] rotation = "Cw90" -> rotate90(@)
                         [] rotation = "Cw180" -> rotate180(@)
                         [] rotation = "Cw270" -> rotate270(@)]

\* PortableDocument::render_page: render_page_at_scale at PDF_RENDER_QUALITY.
render_page(doc, page, rotation) ==
  IF Unrenderable(doc.source_path, page)
  THEN [ok |-> FALSE, image |-> Placeholder]
  ELSE [ok |-> TRUE,
        image |-> render_page_at_scale(doc, page, rotation, PDF_RENDER_QUALITY)]

\* open_document: the dispatch on the kind, and PortableDocument::open for a PDF
\* (a file that is missing, does not parse or has no page gives no document).
OpenFails(fs, path) ==
  \/ from_path(path) = "Unsupported"
  \/ fs[path] = 0
  \/ ~Parses(path)
  \/ (from_path(path) = "Portable" /\ PagesOf(path) = 0)
  \/ (from_path(path) = "Portable" /\ Unrenderable(path, 0))

\* RasterDocument::open, VectorDocument::open, PortableDocument::open: the
\* first surface and its handle. For a Raster document rendered is the decoded
\* image itself (the field document), at its native size.
open_document(fs, path) ==
  IF OpenFails(fs, path) THEN NoDoc
  ELSE
    LET kind == from_path(path)
        base == [NoDoc EXCEPT !.kind = kind, !.source_path = path, !.ver = fs[path],
                              !.num_pages = IF kind = "Portable" THEN PagesOf(path) ELSE 0]
        r == render_document(path, fs[path], 100, DefaultTransform)
        rendered == CASE kind = "Raster" -> RenderedPage(path, fs[path], 0, 100)
                      [] kind = "Vector" -> r.image
                      [] kind = "Portable" -> render_page(base, 0, "None").image
    IN [base EXCEPT !.rendered = rendered,
                    !.handle = create_image_handle_from_image(rendered),
                    !.current_scale = IF kind = "Vector" THEN 100 ELSE 0,
                    !.width = IF kind = "Vector" THEN r.width ELSE 0,
                    !.height = IF kind = "Vector" THEN r.height ELSE 0]

\* DocumentContent::page_count().unwrap_or(0)
page_count(doc) == IF doc.kind = "Portable" THEN doc.num_pages ELSE 0

\* DocumentContent::current_page(): None is -1.
current_page(doc) == IF doc.kind = "Portable" THEN doc.page_index ELSE None

\* DocumentContent::is_multi_page
is_multi_page(doc) == doc.kind = "Portable" /\ doc.num_pages > 1

thumbnails_loaded(doc) ==
  IF doc.thumbnail_cache.some THEN Len(doc.thumbnail_cache.v) ELSE 0

\* Mutant: > where the code has >=.
thumbnails_ready_Strict(doc) ==
  /\ doc.kind = "Portable"
  /\ doc.thumbnail_cache.some
  /\ Len(doc.thumbnail_cache.v) > doc.num_pages

thumbnails_ready(doc) ==
  /\ doc.kind = "Portable"
  /\ doc.thumbnail_cache.some
  /\ Len(doc.thumbnail_cache.v) >= doc.num_pages

\* get_thumbnail(page): the entry at index page, if any (Placeholder stands for
\* no entry only in this accessor's ELSE branch, which callers guard).
has_entry(doc, page) ==
  doc.thumbnail_cache.some /\ page >= 0 /\ page < Len(doc.thumbnail_cache.v)

get_thumbnail(doc, page) == doc.thumbnail_cache.v[page + 1]

init_thumbnail_cache(doc) ==
  IF doc.thumbnail_cache.some THEN doc
  ELSE [doc EXCEPT !.thumbnail_cache = [some |-> TRUE, v |-> <<>>]]

\* Mutant: the page is rasterized by render_page, at the display quality.
load_or_generate_thumbnail_FullScale(doc, cache, fs, page, renderOk, saveOut) ==
  IF load_hits(cache, fs, doc.source_path, page)
  THEN [handle |-> load_thumbnail(cache, fs, doc.source_path, page), cache |-> cache,
        hit |-> TRUE, rendered |-> FALSE, renderOk |-> FALSE, saves |-> 0,
        saveOk |-> FALSE, corrupt |-> FALSE]
  ELSE IF renderOk
  THEN LET img == render_page_at_scale(doc, page, "None", PDF_RENDER_QUALITY)
           sv == save_thumbnail(cache, fs, doc.source_path, page, img, saveOut)
       IN [handle |-> create_image_handle_from_image(img), cache |-> sv.cache,
           hit |-> FALSE, rendered |-> TRUE, renderOk |-> TRUE, saves |-> 1,
           saveOk |-> sv.ok, corrupt |-> load_corrupt(cache, fs, doc.source_path, page)]
  ELSE [handle |-> Placeholder, cache |-> cache,
        hit |-> FALSE, rendered |-> TRUE, renderOk |-> FALSE, saves |-> 0,
        saveOk |-> FALSE, corrupt |-> load_corrupt(cache, fs, doc.source_path, page)]

\* Mutant: the thumbnail is drawn with the rotation the document is shown in.
load_or_generate_thumbnail_Rotated(doc, cache, fs, page, renderOk, saveOut) ==
  IF load_hits(cache, fs, doc.source_path, page)
  THEN [handle |-> load_thumbnail(cache, fs, doc.source_path, page), cache |-> cache,
        hit |-> TRUE, rendered |-> FALSE, renderOk |-> FALSE, saves |-> 0,
        saveOk |-> FALSE, corrupt |-> FALSE]
  ELSE IF renderOk
  THEN LET img == render_page_at_scale(doc, page, doc.transform.rotation,
                                       PDF_THUMBNAIL_SIZE)
           sv == save_thumbnail(cache, fs, doc.source_path, page, img, saveOut)
       IN [handle |-> create_image_handle_from_image(img), cache |-> sv.cache,
           hit |-> FALSE, rendered |-> TRUE, renderOk |-> TRUE, saves |-> 1,
           saveOk |-> sv.ok, corrupt |-> load_corrupt(cache, fs, doc.source_path, page)]
  ELSE [handle |-> Placeholder, cache |-> cache,
        hit |-> FALSE, rendered |-> TRUE, renderOk |-> FALSE, saves |-> 0,
        saveOk |-> FALSE, corrupt |-> load_corrupt(cache, fs, doc.source_path, page)]

\* load_or_generate_thumbnail: the handle, the cache afterwards, and what was done.
load_or_generate_thumbnail(doc, cache, fs, page, renderOk, saveOut) ==
  IF load_hits(cache, fs, doc.source_path, page)
  THEN [handle |-> load_thumbnail(cache, fs, doc.source_path, page), cache |-> cache,
        hit |-> TRUE, rendered |-> FALSE, renderOk |-> FALSE, saves |-> 0,
        saveOk |-> FALSE, corrupt |-> FALSE]
  ELSE IF renderOk
  THEN LET img == render_page_at_scale(doc, page, "None", PDF_THUMBNAIL_SIZE)
           sv == save_thumbnail(cache, fs, doc.source_path, page, img, saveOut)
       IN [handle |-> create_image_handle_from_image(img), cache |-> sv.cache,
           hit |-> FALSE, rendered |-> TRUE, renderOk |-> TRUE, saves |-> 1,
           saveOk |-> sv.ok, corrupt |-> load_corrupt(cache, fs, doc.source_path, page)]
  ELSE [handle |-> Placeholder, cache |-> cache,
        hit |-> FALSE, rendered |-> TRUE, renderOk |-> FALSE, saves |-> 0,
        saveOk |-> FALSE, corrupt |-> load_corrupt(cache, fs, doc.source_path, page)]

\* The record kept of a call that did not reach load_or_generate_thumbnail.
NoWork == [hit |-> FALSE, rendered |-> FALSE, renderOk |-> FALSE, saves |-> 0,
           saveOk |-> FALSE, corrupt |-> FALSE]

\* Mutant: <= where the code has <.
next_page_OffByOne(doc, page) == IF page + 1 <= doc.num_pages THEN page + 1 ELSE None

\* Mutant: the chain stops one page early.
next_page_StopsEarly(doc, page) == IF page + 2 < doc.num_pages THEN page + 1 ELSE None

next_page(doc, page) == IF page + 1 < doc.num_pages THEN page + 1 ELSE None

\* Mutant: the test against num_pages is missing.
should_generate_NoUpperBound(doc, page) == page >= Len(doc.thumbnail_cache.v)

\* Mutant: the test against the pages already present is missing.
should_generate_NoLowerBound(doc, page) == page < doc.num_pages

\* Mutant: the page last appended counts as missing.
should_generate_AgainForLast(doc, page) ==
  page + 1 >= Len(doc.thumbnail_cache.v) /\ page < doc.num_pages

should_generate(doc, page) ==
  page >= Len(doc.thumbnail_cache.v) /\ page < doc.num_pages

\* Mutant: a failed rasterization is propagated: the call gives up, appending
\* nothing and returning None.
generate_thumbnail_page_PropagatesFailure(doc0, cache, fs, page, renderOk, saveOut) ==
  IF doc0.kind # "Portable"
  THEN [doc |-> doc0, cache |-> cache, ret |-> None,
        call |-> [page |-> page, ret |-> None, generated |-> FALSE,
                  lenBefore |-> 0, all |-> FALSE, work |-> NoWork]]
  ELSE
    LET doc == init_thumbnail_cache(doc0)
        r == load_or_generate_thumbnail(doc, cache, fs, page, renderOk, saveOut)
        gen == should_generate(doc, page) /\ (r.hit \/ r.renderOk)
        doc2 == IF gen
                THEN [doc EXCEPT !.thumbnail_cache.v = Append(@, r.handle)]
                ELSE doc
        next == IF should_generate(doc, page) /\ ~gen THEN None ELSE next_page(doc, page)
    IN [doc |-> doc2, cache |-> IF gen THEN r.cache ELSE cache, ret |-> next,
        call |-> [page |-> page, ret |-> next, generated |-> gen,
                  lenBefore |-> Len(doc.thumbnail_cache.v), all |-> FALSE,
                  work |-> IF gen
                           THEN [hit |-> r.hit, rendered |-> r.rendered,
                                 renderOk |-> r.renderOk, saves |-> r.saves,
                                 saveOk |-> r.saveOk, corrupt |-> r.corrupt]
                           ELSE NoWork]]

\* PortableDocument::generate_thumbnail_page, and DocumentContent's dispatch to it
\* (None, nothing done, for a document that is not Portable).
generate_thumbnail_page(doc0, cache, fs, page, renderOk, saveOut) ==
  IF doc0.kind # "Portable"
  THEN [doc |-> doc0, cache |-> cache, ret |-> None,
        call |-> [page |-> page, ret |-> None, generated |-> FALSE,
                  lenBefore |-> 0, all |-> FALSE, work |-> NoWork]]
  ELSE
    LET doc == init_thumbnail_cache(doc0)
        gen == should_generate(doc, page)
        r == load_or_generate_thumbnail(doc, cache, fs, page, renderOk, saveOut)
        doc2 == IF gen
                THEN [doc EXCEPT !.thumbnail_cache.v = Append(@, r.handle)]
                ELSE doc
        next == next_page(doc, page)
    IN [doc |-> doc2, cache |-> IF gen THEN r.cache ELSE cache, ret |-> next,
        call |-> [page |-> page, ret |-> next, generated |-> gen,
                  lenBefore |-> Len(doc.thumbnail_cache.v), all |-> FALSE,
                  work |-> IF gen
                           THEN [hit |-> r.hit, rendered |-> r.rendered,
                                 renderOk |-> r.renderOk, saves |-> r.saves,
                                 saveOk |-> r.saveOk, corrupt |-> r.corrupt]
                           ELSE NoWork]]

NoCall == [page |-> None, ret |-> None, generated |-> FALSE, lenBefore |-> 0,
           all |-> FALSE, work |-> NoWork]

\* seqCalls after a call with argument page.
SeqAfter(seq, page) == IF seq >= 0 /\ seq = page THEN page + 1 ELSE -1

\* ------------------------------------------------------- application state
EmptyCache == [k \in {} |-> Truncated]

\* Messages. gen is history: the document generation (number of loads so far)
\* the chain that carries the message was started for.
GenerateThumbnailPage(page, gen) ==
  [type |-> "GenerateThumbnailPage", page |-> page, gen |-> gen]
RefreshView == [type |-> "RefreshView", page |-> None, gen |-> 0]

\* Task::batch of the messages msgs, added to what the runtime holds. The
\* handler of RefreshView changes nothing the model reads and its copies are
\* indistinguishable, so the bag keeps one copy of it.
Schedule(bag, msgs) ==
  LET sum == bag (+) msgs IN
    [m \in DOMAIN sum |-> IF m = RefreshView THEN 1 ELSE sum[m]]

\* start_thumbnail_generation_task: the messages it returns, as a bag.
start_thumbnail_generation_task(doc, gen) ==
  IF doc.kind # "None" /\ page_count(doc) > 0 /\ ~thumbnails_ready(doc)
  THEN SetToBag({GenerateThumbnailPage(0, gen), RefreshView})
  ELSE EmptyBag

\* thumbnail_refresh_subscription: the 100 ms RefreshView timer is armed.
thumbnail_refresh_subscription(doc) ==
  doc.kind # "None" /\ is_multi_page(doc) /\ ~thumbnails_ready(doc)

\* collect_supported_files: the regular files of the folder with a supported
\* extension, sorted.
collect_supported_files(fs) ==
  SelectSeq(AllFiles, LAMBDA f : fs[f] # 0 /\ from_path(f) # "Unsupported")

\* entries.iter().position(|p| p == current), as a 0-based index or None.
position(entries, path) ==
  IF \E i \in 1..Len(entries) : entries[i] = path
  THEN (CHOOSE i \in 1..Len(entries) :
          entries[i] = path /\ \A j \in 1..(i - 1) : entries[j] # path) - 1
  ELSE None

\* AppModel::new: the fields of the model that loading a document assigns.
AppModel_new ==
  [document |-> NoDoc, metadata |-> NoMeta, current_path |-> "", error |-> FALSE,
   view_mode |-> ViewMode_Fit, pan |-> <<0, 0>>]

\* The same fields of the model as it is.
model ==
  [document |-> document, metadata |-> metadata, current_path |-> current_path,
   error |-> error, view_mode |-> view_mode, pan |-> pan]

\* Mutant: a successful load keeps the pan and the view mode.
load_document_into_model_KeepsView(m, fs, path) ==
  LET doc == open_document(fs, path) IN
    IF doc # NoDoc
    THEN [m EXCEPT !.document = doc, !.metadata = NoMeta, !.current_path = path,
                   !.error = FALSE]
    ELSE [m EXCEPT !.document = NoDoc, !.current_path = "", !.error = TRUE]

\* load_document_into_model: Ok installs the document, drops the cached
\* metadata, clears the error, resets the pan and fits; Err drops the document
\* and the path and sets the error.
load_document_into_model(m, fs, path) ==
  LET doc == open_document(fs, path) IN
    IF doc # NoDoc
    THEN [m EXCEPT !.document = doc, !.metadata = NoMeta, !.current_path = path,
                   !.error = FALSE, !.pan = <<0, 0>>, !.view_mode = ViewMode_Fit]
    ELSE [m EXCEPT !.document = NoDoc, !.current_path = "", !.error = TRUE]

\* open_single_file: load, then rescan the folder when a document was installed.
open_single_file(m, fs, path, entries, index) ==
  LET l == load_document_into_model(m, fs, path) IN
    IF l.document # NoDoc
    THEN [m |-> l, folder_entries |-> collect_supported_files(fs),
          current_index |-> position(collect_supported_files(fs), path)]
    ELSE [m |-> l, folder_entries |-> entries, current_index |-> index]

\* open_from_directory: an empty folder only sets the error.
open_from_directory(m, fs) ==
  LET entries == collect_supported_files(fs) IN
    IF entries = <<>>
    THEN [m |-> [m EXCEPT !.error = TRUE],
          folder_entries |-> <<>>, current_index |-> None]
    ELSE [m |-> load_document_into_model(m, fs, entries[1]),
          folder_entries |-> entries, current_index |-> 0]

InitFs == [f \in Files |-> TicksPerSec]
NoBudget == [opens |-> 0, events |-> 0]

\* The cache directory outlives the process: at start it is empty, or holds
\* what an earlier run left, here a file for page 0 of a.pdf that a failed
\* write left incomplete.
InitCaches ==
  {EmptyCache, (cache_key(InitFs, "a.pdf", 0) :> Truncated)}

\* The I/O outcomes of one generate_thumbnail_page call: does the rasterization
\* succeed, and how does the cache write end.
Outcomes ==
  {<<TRUE, so>> : so \in SaveOutcomes} \cup {<<FALSE, "Ok">>}

\* 1 when the call ran into the failure the outcome o holds.
FaultsUsed(call, o) ==
  IF call.generated /\ call.work.rendered /\ o # <<TRUE, "Ok">> THEN 1 ELSE 0

\* Noctua::init: the model after the initial path (none, a file, or the folder)
\* was opened, the persisted nav bar state, and the first generation task.
Init ==
  /\ fileMtime = InitFs
  /\ diskCache \in InitCaches
  /\ \E ip \in {"none", "dir"} \cup Files :
       LET o == CASE ip = "none" ->
                       [m |-> AppModel_new, folder_entries |-> <<>>, current_index |-> None]
                  [] ip = "dir" -> open_from_directory(AppModel_new, InitFs)
                  [] OTHER -> open_single_file(AppModel_new, InitFs, ip, <<>>, None)
       IN /\ document = o.m.document
          /\ current_path = o.m.current_path
          /\ error = o.m.error
          /\ folder_entries = o.folder_entries
          /\ current_index = o.current_index
          /\ pending = start_thumbnail_generation_task(o.m.document, 0)
  /\ nav_bar_active \in BOOLEAN
  /\ lastCall = NoCall
  /\ lastOp = NoOp
  /\ seqCalls = 0
  /\ budget = NoBudget
  /\ ViewIdle

\* What OpenPath / NextDocument / PrevDocument share: Noctua::update runs the
\* handler, then start_thumbnail_generation_task on the resulting model.
Install(o) ==
  /\ budget.events < MaxEvents
  /\ document' = o.m.document
  /\ current_path' = o.m.current_path
  /\ error' = o.m.error
  /\ folder_entries' = o.folder_entries
  /\ current_index' = o.current_index
  /\ budget' = [opens |-> budget.opens + 1, events |-> budget.events + 1]
  /\ pending' = Schedule(pending,
                   start_thumbnail_generation_task(o.m.document, budget.opens + 1))
  /\ view_mode' = o.m.view_mode
  /\ pan' = o.m.pan
  /\ metadata' = o.m.metadata
  /\ UNCHANGED <<state, layout, shell, lastEvent, inputs, zoom_run, fileMtime, diskCache,
                 nav_bar_active, lastCall, seqCalls, lastOp>>

\* AppMessage::OpenPath(path)
OpenPath(path) ==
  Install(open_single_file(model, fileMtime, path, folder_entries, current_index))

\* navigate_next: the index it moves to.
next_index(entries, index) ==
  IF index # None
  THEN (IF index + 1 < Len(entries) THEN index + 1 ELSE 0)
  ELSE 0

\* Mutant: from index 0 navigate_prev stays at index 0.
prev_index_Saturates(entries, index) ==
  IF index # None
  THEN (IF index > 0 THEN index - 1 ELSE 0)
  ELSE (IF Len(entries) > 0 THEN Len(entries) - 1 ELSE 0)

\* navigate_prev: the index it moves to.
prev_index(entries, index) ==
  IF index # None
  THEN (IF index > 0 THEN index - 1 ELSE Len(entries) - 1)
  ELSE (IF Len(entries) > 0 THEN Len(entries) - 1 ELSE 0)

\* The body of navigate_next / navigate_prev once the index is chosen; with no
\* folder entries nothing is loaded, and Noctua::update still runs
\* start_thumbnail_generation_task on the model as it is.
Navigate(new_index) ==
  IF folder_entries = <<>> \/ new_index >= Len(folder_entries)
  THEN /\ budget.events < MaxEvents
       /\ budget' = [budget EXCEPT !.events = @ + 1]
       /\ pending' = Schedule(pending,
                        start_thumbnail_generation_task(document, budget.opens))
       /\ UNCHANGED <<viewVars, metadata, fileMtime, diskCache, document, current_path, error,
                      folder_entries, current_index, nav_bar_active, lastCall, seqCalls,
                      lastOp>>
  ELSE Install([m |-> load_document_into_model(model, fileMtime,
                                               folder_entries[new_index + 1]),
                folder_entries |-> folder_entries, current_index |-> new_index])

\* AppMessage::NextDocument
NextDocument == Navigate(next_index(folder_entries, current_index))

\* AppMessage::PrevDocument
PrevDocument == Navigate(prev_index(folder_entries, current_index))

\* AppMessage::ToggleNavBar
ToggleNavBar ==
  /\ budget.events < MaxEvents
  /\ nav_bar_active' = ~nav_bar_active
  /\ pending' = IF nav_bar_active'
                THEN Schedule(pending, start_thumbnail_generation_task(document, budget.opens))
                ELSE pending
  /\ budget' = [budget EXCEPT !.events = @ + 1]
  /\ UNCHANGED <<viewVars, metadata, fileMtime, diskCache, document, current_path, error, folder_entries,
                 current_index, lastCall, seqCalls, lastOp>>

\* AppMessage::GenerateThumbnailPage(page): the handler of update.
HandleGenerateThumbnailPage(m) ==
  /\ BagIn(m, pending)
  /\ m.type = "GenerateThumbnailPage"
  /\ \E o \in Outcomes :
       LET r == generate_thumbnail_page(document, diskCache, fileMtime, m.page,
                                        o[1], o[2])
           rest == pending (-) SetToBag({m})
       IN /\ budget.events + FaultsUsed(r.call, o) <= MaxEvents
          /\ budget' = [budget EXCEPT !.events = @ + FaultsUsed(r.call, o)]
          /\ document' = r.doc
          /\ diskCache' = r.cache
          /\ pending' = IF document.kind # "None" /\ r.ret # None
                        THEN Schedule(rest, SetToBag({GenerateThumbnailPage(r.ret, m.gen),
                                                      RefreshView}))
                        ELSE rest
  /\ UNCHANGED <<viewVars, metadata, fileMtime, current_path, error, folder_entries, current_index,
                 nav_bar_active, lastCall, seqCalls, lastOp>>

\* AppMessage::RefreshView: a re-render trigger; the tick it bumps is read nowhere.
HandleRefreshView ==
  /\ BagIn(RefreshView, pending)
  /\ pending' = pending (-) SetToBag({RefreshView})
  /\ UNCHANGED <<viewVars, metadata, fileMtime, diskCache, document, current_path, error, folder_entries,
                 current_index, nav_bar_active, lastCall, seqCalls, lastOp, budget>>

\* thumbnail_refresh_subscription: while it is armed the timer sends RefreshView.
RefreshTimer ==
  /\ thumbnail_refresh_subscription(document)
  /\ pending' = Schedule(pending, SetToBag({RefreshView}))
  /\ UNCHANGED <<viewVars, metadata, fileMtime, diskCache, document, current_path, error, folder_entries,
                 current_index, nav_bar_active, lastCall, seqCalls, lastOp, budget>>

\* ------------------------------------------------------- the file system
\* The source file is rewritten: its modification time moves on, by less than
\* a second or by more.
Touch(p) ==
  /\ budget.events < MaxEvents
  /\ fileMtime[p] > 0
  /\ \E d \in {1, TicksPerSec} : fileMtime' = [fileMtime EXCEPT ![p] = @ + d]
  /\ budget' = [budget EXCEPT !.events = @ + 1]
  /\ UNCHANGED <<viewVars, metadata, diskCache, document, appVars, lastCall, seqCalls, lastOp>>

\* The source file is removed.
Remove(p) ==
  /\ budget.events < MaxEvents
  /\ fileMtime[p] > 0
  /\ fileMtime' = [fileMtime EXCEPT ![p] = 0]
  /\ budget' = [budget EXCEPT !.events = @ + 1]
  /\ UNCHANGED <<viewVars, metadata, diskCache, document, appVars, lastCall, seqCalls, lastOp>>

\* clear_cache: the cache directory is removed with everything in it.
ClearCache ==
  /\ budget.events < MaxEvents
  /\ diskCache # EmptyCache
  /\ diskCache' = EmptyCache
  /\ budget' = [budget EXCEPT !.events = @ + 1]
  /\ UNCHANGED <<viewVars, metadata, fileMtime, document, appVars, lastCall, seqCalls, lastOp>>

Messages ==
  {GenerateThumbnailPage(k, g) : k \in 0..(MaxPages - 1), g \in 0..MaxEvents}

Next ==
  \/ \E p \in Files : OpenPath(p)
  \/ NextDocument
  \/ PrevDocument
  \/ ToggleNavBar
  \/ \E m \in Messages : HandleGenerateThumbnailPage(m)
  \/ HandleRefreshView
  \/ RefreshTimer
  \/ \E p \in PdfFiles : Touch(p)
  \/ \E p \in PdfFiles : Remove(p)
  \/ ClearCache

Spec == Init /\ [][Next]_vars

\* The runtime delivers the messages it holds: the executor polls every task of
\* a batch to completion and the event loop hands each message to update.
DeliverStep == \E m \in Messages : HandleGenerateThumbnailPage(m)

FairSpec ==
  /\ Spec
  /\ WF_vars(DeliverStep)

\* ------------------------------------------- the document interface, driven
\* The loop of generate_all_thumbnails from page on; outs gives the I/O outcome
\* of each page's call.
RECURSIVE GenerateFrom(_, _, _, _, _)
GenerateFrom(doc, cache, fs, page, outs) ==
  IF page >= doc.num_pages
  THEN [doc |-> doc, cache |-> cache, faults |-> 0, call |-> NoCall]
  ELSE LET r == generate_thumbnail_page(doc, cache, fs, page, outs[page][1], outs[page][2])
           rest == GenerateFrom(r.doc, r.cache, fs, page + 1, outs)
       IN [doc |-> rest.doc, cache |-> rest.cache,
           faults |-> FaultsUsed(r.call, outs[page]) + rest.faults,
           call |-> IF page + 1 >= doc.num_pages THEN r.call ELSE rest.call]

\* Mutant: the loop starts at page 1.
generate_all_thumbnails_SkipsFirst(doc, cache, fs, outs) ==
  IF doc.kind # "Portable" \/ thumbnails_ready(doc)
  THEN [doc |-> doc, cache |-> cache, faults |-> 0, call |-> NoCall]
  ELSE GenerateFrom(init_thumbnail_cache(doc), cache, fs, 1, outs)

\* MultiPageThumbnails::generate_all_thumbnails, and DocumentContent's
\* generate_thumbnails dispatching to it.
generate_all_thumbnails(doc, cache, fs, outs) ==
  IF doc.kind # "Portable" \/ thumbnails_ready(doc)
  THEN [doc |-> doc, cache |-> cache, faults |-> 0, call |-> NoCall]
  ELSE GenerateFrom(init_thumbnail_cache(doc), cache, fs, 0, outs)

\* The caller has opened one of the files of the folder.
InitApi ==
  /\ fileMtime = InitFs
  /\ diskCache \in InitCaches
  /\ \E path \in Files : document = open_document(InitFs, path)
  /\ current_path = ""
  /\ error = FALSE
  /\ folder_entries = <<>>
  /\ current_index = None
  /\ nav_bar_active = FALSE
  /\ pending = EmptyBag
  /\ lastCall = NoCall
  /\ lastOp = NoOp
  /\ seqCalls = 0
  /\ budget = NoBudget
  /\ ViewIdle

\* open_document(path) by a caller that keeps the result as its document.
ApiOpen(path) ==
  /\ budget.events < MaxEvents
  /\ document' = open_document(fileMtime, path)
  /\ budget' = [opens |-> budget.opens + 1, events |-> budget.events + 1]
  /\ lastCall' = NoCall
  /\ seqCalls' = 0
  /\ UNCHANGED <<viewVars, metadata, fileMtime, diskCache, appVars, lastOp>>

\* doc.generate_thumbnail_page(n), any n.
ApiGenerateThumbnailPage(n) ==
  /\ document.kind # "None"
  /\ \E o \in Outcomes :
       LET r == generate_thumbnail_page(document, diskCache, fileMtime, n, o[1], o[2])
       IN /\ budget.events + FaultsUsed(r.call, o) <= MaxEvents
          /\ budget' = [budget EXCEPT !.events = @ + FaultsUsed(r.call, o)]
          /\ document' = r.doc
          /\ diskCache' = r.cache
          /\ lastCall' = r.call
          /\ seqCalls' = SeqAfter(seqCalls, n)
  /\ UNCHANGED <<viewVars, metadata, fileMtime, appVars, lastOp>>

\* The I/O outcomes of the calls of one generate_all_thumbnails, page by page,
\* grouped by how many of them hold a failure.
OutsByFaults ==
  [k \in 0..MaxEvents |->
     {outs \in [0..(MaxPages - 1) -> Outcomes] :
        Cardinality({n \in DOMAIN outs : outs[n] # <<TRUE, "Ok">>}) <= k}]

\* doc.generate_thumbnails()
ApiGenerateAllThumbnails ==
  /\ document.kind # "None"
  /\ \E outs \in OutsByFaults[MaxEvents - budget.events] :
       LET r == generate_all_thumbnails(document, diskCache, fileMtime, outs)
       IN /\ budget.events + r.faults <= MaxEvents
          /\ budget' = [budget EXCEPT !.events = @ + r.faults]
          /\ document' = r.doc
          /\ diskCache' = r.cache
          /\ lastCall' = IF r.call = NoCall THEN lastCall
                         ELSE [r.call EXCEPT !.all = TRUE]
          /\ seqCalls' = IF r.call = NoCall THEN seqCalls
                         ELSE IF seqCalls = 0 THEN document.num_pages ELSE -1
  /\ UNCHANGED <<viewVars, metadata, fileMtime, appVars, lastOp>>

NextApi ==
  \/ \E p \in Files : ApiOpen(p)
  \/ \E n \in 0..MaxPages : ApiGenerateThumbnailPage(n)
  \/ ApiGenerateAllThumbnails
  \/ \E p \in PdfFiles : Touch(p)
  \/ \E p \in PdfFiles : Remove(p)
  \/ ClearCache

SpecApi == InitApi /\ [][NextApi]_vars

\* ------------------------------------------------ the display surface
\* RasterDocument::refresh_handle / PortableDocument::refresh_handle
refresh_handle(doc) ==
  [doc EXCEPT !.handle = create_image_handle_from_image(doc.rendered)]

\* What is left of a document when unreachable!() panics.
Panicked == [NoDoc EXCEPT !.kind = "Panicked"]

\* The mutant of diff_deg: the difference taken the wrong way round.
diff_deg_Reversed(doc, rotation) ==
  (to_degrees(doc.transform.rotation) - to_degrees(rotation) + 360) % 360

\* The difference rotate (raster.rs) computes, in i16 degrees.
diff_deg(doc, rotation) ==
  (to_degrees(rotation) - to_degrees(doc.transform.rotation) + 360) % 360

\* Transformable::rotate for RasterDocument
raster_rotate(doc, rotation) ==
  LET d == diff_deg(doc, rotation) IN
    IF d \notin {0, 90, 180, 270} THEN Panicked
    ELSE refresh_handle(
           [doc EXCEPT !.rendered.px = CASE d = 0 -> @
                                         [] d = 90 -> rotate90(@)
                                         [] d = 180 -> rotate180(@)
                                         [] d = 270 -> rotate270(@),
                       !.transform.rotation = rotation])

\* Transformable::flip for RasterDocument
raster_flip(doc, direction) ==
  refresh_handle(
    IF direction = "Horizontal"
    THEN [doc EXCEPT !.rendered.px = flip_horizontal(@), !.transform.flip_h = ~@]
    ELSE [doc EXCEPT !.rendered.px = flip_vertical(@), !.transform.flip_v = ~@])

\* The mutant of vector_rerender: the handle is not rebuilt.
vector_rerender_KeepsHandle(doc) ==
  LET r == render_document(doc.source_path, doc.ver, doc.current_scale, doc.transform) IN
    IF r.ok
    THEN [doc EXCEPT !.rendered = r.image, !.width = r.width, !.height = r.height]
    ELSE doc

\* VectorDocument::rerender
vector_rerender(doc) ==
  LET r == render_document(doc.source_path, doc.ver, doc.current_scale, doc.transform) IN
    IF r.ok
    THEN [doc EXCEPT !.rendered = r.image, !.width = r.width, !.height = r.height,
                     !.handle = create_image_handle_from_image(r.image)]
    ELSE doc

\* VectorDocument::render_at_scale: the document and whether it re-rendered.
render_at_scale(doc, scale) ==
  LET r == render_document(doc.source_path, doc.ver, scale, doc.transform) IN
    IF scale = doc.current_scale THEN [doc |-> doc, ret |-> FALSE]
    ELSE IF r.ok
    THEN [doc |-> [doc EXCEPT !.current_scale = scale, !.rendered = r.image,
                              !.width = r.width, !.height = r.height,
                              !.handle = create_image_handle_from_image(r.image)],
          ret |-> TRUE]
    ELSE [doc |-> doc, ret |-> FALSE]

\* The mutant of vector_flip: the flag is set, not toggled.
vector_flip_Sets(doc, direction) ==
  vector_rerender(IF direction = "Horizontal"
                  THEN [doc EXCEPT !.transform.flip_h = TRUE]
                  ELSE [doc EXCEPT !.transform.flip_v = TRUE])

\* Transformable::rotate and flip for VectorDocument
vector_rotate(doc, rotation) ==
  vector_rerender([doc EXCEPT !.transform.rotation = rotation])

vector_flip(doc, direction) ==
  vector_rerender(IF direction = "Horizontal"
                  THEN [doc EXCEPT !.transform.flip_h = ~@]
                  ELSE [doc EXCEPT !.transform.flip_v = ~@])

\* The mutant of portable_rerender: a failed render turns the old surface
\* upside down.
portable_rerender_TurnsOnFailure(doc) ==
  LET r == render_page(doc, doc.page_index, doc.transform.rotation)
      p1 == IF doc.transform.flip_h THEN flip_horizontal(r.image.px) ELSE r.image.px
      p2 == IF doc.transform.flip_v THEN flip_vertical(p1) ELSE p1
  IN IF r.ok
     THEN refresh_handle([doc EXCEPT !.rendered = [r.image EXCEPT !.px = p2]])
     ELSE refresh_handle([doc EXCEPT !.rendered.px = rotate180(@)])

\* PortableDocument::rerender: the page rendered with the rotation, then flipped.
portable_rerender(doc) ==
  LET r == render_page(doc, doc.page_index, doc.transform.rotation)
      p1 == IF doc.transform.flip_h THEN flip_horizontal(r.image.px) ELSE r.image.px
      p2 == IF doc.transform.flip_v THEN flip_vertical(p1) ELSE p1
  IN IF r.ok
     THEN refresh_handle([doc EXCEPT !.rendered = [r.image EXCEPT !.px = p2]])
     ELSE doc

\* The mutant of portable_flip: a horizontal flip toggles the other flag too.
portable_flip_TogglesBoth(doc, direction) ==
  portable_rerender(IF direction = "Horizontal"
                    THEN [doc EXCEPT !.transform.flip_h = ~@, !.transform.flip_v = ~@]
                    ELSE [doc EXCEPT !.transform.flip_v = ~@])

\* Transformable::rotate and flip for PortableDocument
portable_rotate(doc, rotation) ==
  portable_rerender([doc EXCEPT !.transform.rotation = rotation])

portable_flip(doc, direction) ==
  portable_rerender(IF direction = "Horizontal"
                    THEN [doc EXCEPT !.transform.flip_h = ~@]
                    ELSE [doc EXCEPT !.transform.flip_v = ~@])

\* The mutant of go_to_page: the range check lets page_count through.
go_to_page_OffByOne(doc, page) ==
  IF doc.kind # "Portable" \/ page > doc.num_pages
  THEN [doc |-> doc, ok |-> FALSE]
  ELSE [doc |-> portable_rerender([doc EXCEPT !.page_index = page]), ok |-> TRUE]

\* MultiPage::go_to_page and DocumentContent::go_to_page: ok is Ok(()).
go_to_page(doc, page) ==
  IF doc.kind # "Portable" \/ page >= doc.num_pages
  THEN [doc |-> doc, ok |-> FALSE]
  ELSE [doc |-> portable_rerender([doc EXCEPT !.page_index = page]), ok |-> TRUE]

\* PortableDocument::next_page / prev_page (page navigation, not the
\* thumbnail pipeline's next pointer)
portable_next_page(doc) ==
  IF doc.page_index + 1 < doc.num_pages
  THEN [doc |-> portable_rerender([doc EXCEPT !.page_index = @ + 1]), ret |-> TRUE]
  ELSE [doc |-> doc, ret |-> FALSE]

portable_prev_page(doc) ==
  IF doc.page_index > 0
  THEN [doc |-> portable_rerender([doc EXCEPT !.page_index = @ - 1]), ret |-> TRUE]
  ELSE [doc |-> doc, ret |-> FALSE]

\* Transformable for DocumentContent
rotate(doc, rotation) ==
  CASE doc.kind = "Raster" -> raster_rotate(doc, rotation)
    [] doc.kind = "Vector" -> vector_rotate(doc, rotation)
    [] doc.kind = "Portable" -> portable_rotate(doc, rotation)

flip(doc, direction) ==
  CASE doc.kind = "Raster" -> raster_flip(doc, direction)
    [] doc.kind = "Vector" -> vector_flip(doc, direction)
    [] doc.kind = "Portable" -> portable_flip(doc, direction)

transform_state(doc) == doc.transform

\* DocumentContent::rotate_cw / rotate_ccw
rotate_cw(doc) == rotate(doc, Rotation_rotate_cw(transform_state(doc).rotation))

rotate_ccw(doc) == rotate(doc, Rotation_rotate_ccw(transform_state(doc).rotation))

\* DocumentContent::handle and DocumentContent::dimensions
handle(doc) == doc.handle

dimensions(doc) ==
  IF doc.kind = "Vector" THEN <<doc.width, doc.height>>
  ELSE image_dimensions(doc.rendered)

\* Renderable::render(scale): the output, and the document afterwards (only a
\* Vector document re-renders).
render(doc, scale) ==
  LET d == IF doc.kind = "Vector" THEN render_at_scale(doc, scale).doc ELSE doc IN
    [doc |-> d, handle |-> d.handle, width |-> dimensions(d)[1],
     height |-> dimensions(d)[2]]

\* Whether the re-rasterization of the document as it is now would succeed.
RerenderOk(doc) ==
  CASE doc.kind = "Raster" -> TRUE
    [] doc.kind = "Vector" -> ~PixmapFails(doc.current_scale)
    [] doc.kind = "Portable" -> ~Unrenderable(doc.source_path, doc.page_index)

\* ------------------------------ the Transformable / MultiPage interface, driven
\* Scales a caller asks render for; the last one is too large for a pixmap.
RenderScales == {100, 200, 300}

DocFs == [f \in Files \cup DocFiles |-> TicksPerSec]

\* The caller has opened one of the files.
InitDoc ==
  /\ fileMtime = DocFs
  /\ diskCache = EmptyCache
  /\ \E path \in DocFiles : document = open_document(DocFs, path)
  /\ current_path = ""
  /\ error = FALSE
  /\ folder_entries = <<>>
  /\ current_index = None
  /\ nav_bar_active = FALSE
  /\ pending = EmptyBag
  /\ lastCall = NoCall
  /\ seqCalls = 0
  /\ lastOp = NoOp
  /\ budget = NoBudget
  /\ ViewIdle

DocUnchanged ==
  UNCHANGED <<viewVars, metadata, fileMtime, diskCache, appVars, lastCall, seqCalls, budget>>

\* open_document(path) by a caller that keeps the result as its document.
DocOpen(path) ==
  /\ document' = open_document(fileMtime, path)
  /\ lastOp' = NoOp
  /\ DocUnchanged

\* doc.rotate(rotation), any rotation.
Rotate(rotation) ==
  /\ document.kind \in {"Raster", "Vector", "Portable"}
  /\ document' = rotate(document, rotation)
  /\ lastOp' = [op |-> "rotate", arg |-> rotation, ok |-> RerenderOk(document),
                sum |-> IF document.kind = "Raster"
                        THEN (lastOp.sum + diff_deg(document, rotation)) % 360
                        ELSE lastOp.sum]
  /\ DocUnchanged

\* doc.rotate_cw()
RotateCw ==
  /\ document.kind \in {"Raster", "Vector", "Portable"}
  /\ document' = rotate_cw(document)
  /\ lastOp' = [op |-> "rotate_cw", arg |-> "", ok |-> RerenderOk(document),
                sum |-> IF document.kind = "Raster"
                        THEN (lastOp.sum + diff_deg(document,
                                 Rotation_rotate_cw(document.transform.rotation))) % 360
                        ELSE lastOp.sum]
  /\ DocUnchanged

\* doc.rotate_ccw()
RotateCcw ==
  /\ document.kind \in {"Raster", "Vector", "Portable"}
  /\ document' = rotate_ccw(document)
  /\ lastOp' = [op |-> "rotate_ccw", arg |-> "", ok |-> RerenderOk(document),
                sum |-> IF document.kind = "Raster"
                        THEN (lastOp.sum + diff_deg(document,
                                 Rotation_rotate_ccw(document.transform.rotation))) % 360
                        ELSE lastOp.sum]
  /\ DocUnchanged

\* doc.flip(direction)
Flip(direction) ==
  /\ document.kind \in {"Raster", "Vector", "Portable"}
  /\ document' = flip(document, direction)
  /\ lastOp' = [lastOp EXCEPT !.op = "flip", !.arg = direction,
                              !.ok = RerenderOk(document)]
  /\ DocUnchanged

\* doc.go_to_page(page), any page.
GoToPage(page) ==
  /\ document.kind \in {"Raster", "Vector", "Portable"}
  /\ document' = go_to_page(document, page).doc
  /\ lastOp' = [lastOp EXCEPT !.op = "go_to_page", !.arg = "",
                              !.ok = go_to_page(document, page).ok
                                       /\ RerenderOk(document')]
  /\ DocUnchanged

\* PortableDocument::next_page
NextPage ==
  /\ document.kind = "Portable"
  /\ document' = portable_next_page(document).doc
  /\ lastOp' = [lastOp EXCEPT !.op = "next_page", !.arg = "",
                              !.ok = portable_next_page(document).ret
                                       /\ RerenderOk(document')]
  /\ DocUnchanged

\* PortableDocument::prev_page
PrevPage ==
  /\ document.kind = "Portable"
  /\ document' = portable_prev_page(document).doc
  /\ lastOp' = [lastOp EXCEPT !.op = "prev_page", !.arg = "",
                              !.ok = portable_prev_page(document).ret
                                       /\ RerenderOk(document')]
  /\ DocUnchanged

\* doc.render(scale)
Render(scale) ==
  /\ document.kind \in {"Raster", "Vector", "Portable"}
  /\ document' = render(document, scale).doc
  /\ lastOp' = [lastOp EXCEPT !.op = "render", !.arg = "",
                              !.ok = ~(document.kind = "Vector" /\ PixmapFails(scale))]
  /\ DocUnchanged

NextDoc ==
  \/ \E path \in DocFiles : DocOpen(path)
  \/ \E rotation \in Rotation : Rotate(rotation)
  \/ RotateCw
  \/ RotateCcw
  \/ \E direction \in FlipDirection : Flip(direction)
  \/ \E page \in 0..MaxPages : GoToPage(page)
  \/ NextPage
  \/ PrevPage
  \/ \E scale \in RenderScales : Render(scale)

SpecDoc == InitDoc /\ [][NextDoc]_vars

\* ------------------------------------------------ the viewport controller
\* a / b for b > 0, rounded to the nearest unit.
Round(a, b) == (a + b \div 2) \div b

\* f32::clamp, f32::abs
Clamp(v, lo, hi) == IF v < lo THEN lo ELSE IF v > hi THEN hi ELSE v

Abs(v) == IF v < 0 THEN -v ELSE v

\* cursor.position_over(bounds) is Some: the bounds start at the origin.
position_over(bounds, pos) ==
  /\ pos # NoPoint
  /\ 0 <= pos[1] /\ pos[1] < bounds[1]
  /\ 0 <= pos[2] /\ pos[2] < bounds[2]

\* bounds.center()
center(bounds) == <<bounds[1] \div 2, bounds[2] \div 2>>

\* ContentFit::Contain.fit(content, bounds): the largest size of the content's
\* aspect ratio inside the bounds.
content_fit(content, bounds) ==
  IF bounds[1] * content[2] > content[1] * bounds[2]
  THEN <<Round(content[1] * bounds[2], content[2]), bounds[2]>>
  ELSE <<bounds[1], Round(content[2] * bounds[1], content[1])>>

\* scaled_image_size(renderer, handle, state, bounds, content_fit)
scaled_image_size(lay, st) ==
  LET image_size == <<lay.image[1] * Px, lay.image[2] * Px>>
      adjusted_fit == content_fit(image_size, lay.bounds)
  IN <<Round(adjusted_fit[1] * st.scale, ScaleOne),
       Round(adjusted_fit[2] * st.scale, ScaleOne)>>

\* max_offset_x / max_offset_y of clamp_offset
max_offset(viewport_size, image_size) ==
  LET mx == (image_size[1] - viewport_size[1]) \div 2
      my == (image_size[2] - viewport_size[2]) \div 2
  IN <<IF mx > 0 THEN mx ELSE 0, IF my > 0 THEN my ELSE 0>>

\* clamp_offset(offset, viewport_size, image_size)
clamp_offset(offset, viewport_size, image_size) ==
  LET m == max_offset(viewport_size, image_size) IN
    <<Clamp(offset[1], -m[1], m[1]), Clamp(offset[2], -m[2], m[2])>>

\* State::is_cursor_grabbed
is_cursor_grabbed(st) == st.cursor_grabbed_at # NoPoint

\* on_state_change(state.scale, state.current_offset.x, state.current_offset.y)
on_change(st) ==
  [scale |-> st.scale, offset_x |-> st.current_offset[1],
   offset_y |-> st.current_offset[2]]

\* A wheel step that adds or takes away scale_step.
wheel_scale_Adds(scale, y) ==
  IF y > 0 THEN scale + scale_step ELSE scale - scale_step

\* A wheel step that zooms out by multiplying with 1 - scale_step.
wheel_scale_Subtracts(scale, y) ==
  IF y > 0 THEN Round(scale * (ScaleOne + scale_step), ScaleOne)
  ELSE Round(scale * (ScaleOne - scale_step), ScaleOne)

\* The scale a wheel step asks for, before the clamp.
wheel_scale(scale, y) ==
  IF y > 0 THEN Round(scale * (ScaleOne + scale_step), ScaleOne)
  ELSE Round(scale * ScaleOne, ScaleOne + scale_step)

\* Viewer::on_event, WheelScrolled, inside the guard: the new scale, the
\* offset that keeps the point under the cursor in place, clamped, and the
\* notification.
wheel_zoomed(st, lay, pos, y) ==
  LET previous_scale == st.scale
      scale == Clamp(wheel_scale(st.scale, y), min_scale, max_scale)
      cursor_to_center == <<pos[1] - center(lay.bounds)[1],
                            pos[2] - center(lay.bounds)[2]>>
      new_offset ==
        <<Round(st.current_offset[1] * scale
                  + cursor_to_center[1] * (scale - previous_scale), previous_scale),
          Round(st.current_offset[2] * scale
                  + cursor_to_center[2] * (scale - previous_scale), previous_scale)>>
      st1 == [st EXCEPT !.scale = scale]
      st2 == [st1 EXCEPT !.current_offset =
                clamp_offset(new_offset, lay.bounds, scaled_image_size(lay, st1))]
  IN [state |-> st2, shell |-> <<on_change(st2)>>, status |-> "Captured"]

\* A wheel handler that notifies also when the guard fails.
on_wheel_scrolled_NotifiesAtLimit(st, lay, pos, y) ==
  IF ~position_over(lay.bounds, pos)
  THEN [state |-> st, shell |-> <<>>, status |-> "Ignored"]
  ELSE IF (y < 0 /\ st.scale > min_scale) \/ (y > 0 /\ st.scale < max_scale)
  THEN wheel_zoomed(st, lay, pos, y)
  ELSE [state |-> st, shell |-> <<on_change(st)>>, status |-> "Captured"]

\* Viewer::on_event, Event::Mouse(WheelScrolled { delta }) with delta.y = y.
on_wheel_scrolled(st, lay, pos, y) ==
  IF ~position_over(lay.bounds, pos)
  THEN [state |-> st, shell |-> <<>>, status |-> "Ignored"]
  ELSE IF (y < 0 /\ st.scale > min_scale) \/ (y > 0 /\ st.scale < max_scale)
  THEN wheel_zoomed(st, lay, pos, y)
  ELSE [state |-> st, shell |-> <<>>, status |-> "Captured"]

\* A press handler that grabs the cursor wherever it is.
on_button_pressed_GrabsAnywhere(st, lay, pos) ==
  [state |-> [st EXCEPT !.cursor_grabbed_at = pos,
                        !.starting_offset = st.current_offset],
   shell |-> <<>>, status |-> "Captured"]

\* Viewer::on_event, Event::Mouse(ButtonPressed(Left))
on_button_pressed(st, lay, pos) ==
  IF ~position_over(lay.bounds, pos)
  THEN [state |-> st, shell |-> <<>>, status |-> "Ignored"]
  ELSE [state |-> [st EXCEPT !.cursor_grabbed_at = pos,
                             !.starting_offset = st.current_offset],
        shell |-> <<>>, status |-> "Captured"]

\* Viewer::on_event, Event::Mouse(ButtonReleased(Left))
on_button_released(st) ==
  IF st.cursor_grabbed_at # NoPoint
  THEN [state |-> [st EXCEPT !.cursor_grabbed_at = NoPoint],
        shell |-> <<on_change(st)>>, status |-> "Captured"]
  ELSE [state |-> st, shell |-> <<>>, status |-> "Ignored"]

\* A move handler that pans from the offset of the last move.
on_cursor_moved_FromCurrent(st, lay, cursor_pos) ==
  IF st.cursor_grabbed_at # NoPoint
  THEN LET origin == st.cursor_grabbed_at
           delta == <<cursor_pos[1] - origin[1], cursor_pos[2] - origin[2]>>
           new_offset == <<st.current_offset[1] - delta[1],
                           st.current_offset[2] - delta[2]>>
           st1 == [st EXCEPT !.current_offset =
                     clamp_offset(new_offset, lay.bounds, scaled_image_size(lay, st))]
       IN [state |-> st1, shell |-> <<on_change(st1)>>, status |-> "Captured"]
  ELSE [state |-> st, shell |-> <<>>, status |-> "Ignored"]

\* Viewer::on_event, Event::Mouse(CursorMoved { position })
on_cursor_moved(st, lay, cursor_pos) ==
  IF st.cursor_grabbed_at # NoPoint
  THEN LET origin == st.cursor_grabbed_at
           delta == <<cursor_pos[1] - origin[1], cursor_pos[2] - origin[2]>>
           new_offset == <<st.starting_offset[1] - delta[1],
                           st.starting_offset[2] - delta[2]>>
           st1 == [st EXCEPT !.current_offset =
                     clamp_offset(new_offset, lay.bounds, scaled_image_size(lay, st))]
       IN [state |-> st1, shell |-> <<on_change(st1)>>, status |-> "Captured"]
  ELSE [state |-> st, shell |-> <<>>, status |-> "Ignored"]

\* A diff that takes the external state whenever it is not the internal one.
diff_AnyDifference(st, ext_scale, ext_offset) ==
  IF ~is_cursor_grabbed(st) /\ (st.scale # ext_scale \/ st.current_offset # ext_offset)
  THEN [st EXCEPT !.scale = ext_scale, !.current_offset = ext_offset,
                  !.starting_offset = ext_offset]
  ELSE st

\* Viewer::diff with external_state = Some((ext_scale, ext_offset))
diff(st, ext_scale, ext_offset) ==
  LET scale_changed == Abs(st.scale - ext_scale) > SCALE_EPSILON
      offset_changed == \/ Abs(st.current_offset[1] - ext_offset[1]) > OFFSET_EPSILON
                        \/ Abs(st.current_offset[2] - ext_offset[2]) > OFFSET_EPSILON
  IN IF ~is_cursor_grabbed(st) /\ (scale_changed \/ offset_changed)
     THEN [st EXCEPT !.scale = ext_scale, !.current_offset = ext_offset,
                     !.starting_offset = ext_offset]
     ELSE st

\* current_zoom(model)
current_zoom(vm) == IF vm.mode = "Custom" THEN vm.z ELSE ScaleOne

\* zoom_in(model, config) and zoom_out(model, config): view_mode and pan after.
zoom_in(vm, p) ==
  LET current == current_zoom(vm)
      new_zoom == Clamp(Round(current * config_scale_step, ScaleOne),
                        config_min_scale, config_max_scale)
  IN [view_mode |-> ViewMode_Custom(new_zoom),
      pan |-> <<Round(p[1] * new_zoom, current), Round(p[2] * new_zoom, current)>>]

zoom_out(vm, p) ==
  LET current == current_zoom(vm)
      new_zoom == Clamp(Round(current * ScaleOne, config_scale_step),
                        config_min_scale, config_max_scale)
  IN [view_mode |-> ViewMode_Custom(new_zoom),
      pan |-> <<Round(p[1] * new_zoom, current), Round(p[2] * new_zoom, current)>>]

\* Mutant: the handler takes the scale of the notification and keeps the pan.
viewer_state_changed_KeepsPan(vm, p, msgs) ==
  IF msgs = <<>> THEN [view_mode |-> vm, pan |-> p]
  ELSE [view_mode |-> ViewMode_Custom(msgs[Len(msgs)].scale), pan |-> p]

\* update, AppMessage::ViewerStateChanged, for every message of the shell in
\* order: the last one stays.
RECURSIVE viewer_state_changed(_, _, _)
viewer_state_changed(vm, p, msgs) ==
  IF msgs = <<>> THEN [view_mode |-> vm, pan |-> p]
  ELSE viewer_state_changed(ViewMode_Custom(msgs[1].scale),
                            <<msgs[1].offset_x, msgs[1].offset_y>>, Tail(msgs))

\* The view hands the model's zoom and pan to the viewer:
\* Viewer::with_state(zoom, pan_x, pan_y), then Widget::diff.
sync(st, vm, p) == diff(st, current_zoom(vm), p)

\* ------------------------------ the viewport controller, driven by events
\* Events counted against the budget: every event but the wheel steps of a
\* run of steps in one direction, at the centre of the viewport, on a viewer
\* nothing else has touched yet.
MaxInputs == 3

\* The wheel zoom-ins in a row that are counted; more count as this many.
MaxZoomIns == 27

\* No zoom-in yet since the viewer had the state st.
NoZoomRun(st) == [from |-> st.scale, n |-> 0]

\* Where the cursor can be: the centre of the first viewport, a point off the
\* centre, and a point outside it.
Positions == {<<5 * Px, 5 * Px>>, <<8 * Px, 2 * Px>>, <<25 * Px, 5 * Px>>}

\* The sizes the viewport takes, and the scroll directions (0: a horizontal
\* scroll).
BoundsSizes == {<<10 * Px, 10 * Px>>, <<20 * Px, 10 * Px>>}

ScrollY == {-1, 0, 1}

PanDirections == {"Left", "Right", "Up", "Down"}

\* Widget::state: a fresh State, with the external state if there is one.
viewer_state(ext_scale, ext_offset) ==
  [State_default EXCEPT !.scale = ext_scale, !.current_offset = ext_offset,
                        !.starting_offset = ext_offset]

\* A Raster document is open and shown by a new viewer.
InitView ==
  /\ fileMtime = DocFs
  /\ diskCache = EmptyCache
  /\ document = open_document(DocFs, "c.png")
  /\ current_path = ""
  /\ error = FALSE
  /\ folder_entries = <<>>
  /\ current_index = None
  /\ nav_bar_active = FALSE
  /\ pending = EmptyBag
  /\ lastCall = NoCall
  /\ seqCalls = 0
  /\ lastOp = NoOp
  /\ budget = NoBudget
  /\ view_mode = ViewMode_Fit
  /\ pan = <<0, 0>>
  /\ state = viewer_state(current_zoom(ViewMode_Fit), <<0, 0>>)
  /\ layout = Layout0
  /\ shell = <<>>
  /\ lastEvent = NoEvent
  /\ inputs = 0
  /\ zoom_run = [from |-> ScaleOne, n |-> 0]
  /\ metadata = NoMeta

ViewUnchanged ==
  UNCHANGED <<fileMtime, diskCache, document, appVars, lastCall, seqCalls, lastOp,
              budget, metadata>>

\* What an event costs.
Cost(ev, pos, y) ==
  IF /\ ev = "WheelScrolled"
     /\ pos = center(layout.bounds)
     /\ y # 0
     /\ inputs = 0
     /\ lastEvent.ev = "none" \/ lastEvent.y = y
  THEN 0 ELSE 1

\* One mouse event: on_event gives r; update handles what the shell holds; the
\* view is rebuilt and diffed when a message was handled.
MouseEvent(ev, pos, y, r) ==
  LET m == viewer_state_changed(view_mode, pan, r.shell) IN
    /\ inputs + Cost(ev, pos, y) <= MaxInputs
    /\ inputs' = inputs + Cost(ev, pos, y)
    /\ view_mode' = m.view_mode
    /\ pan' = m.pan
    /\ state' = IF r.shell = <<>> THEN r.state ELSE sync(r.state, m.view_mode, m.pan)
    /\ shell' = r.shell
    /\ lastEvent' = [ev |-> ev, y |-> y, status |-> r.status]
    /\ zoom_run' = IF ev = "WheelScrolled" /\ y > 0 /\ r.status = "Captured"
                   THEN [zoom_run EXCEPT !.n = IF @ < MaxZoomIns THEN @ + 1 ELSE @]
                   ELSE NoZoomRun(state')
    /\ UNCHANGED layout
    /\ ViewUnchanged

WheelScrolled(pos, y) ==
  MouseEvent("WheelScrolled", pos, y, on_wheel_scrolled(state, layout, pos, y))

ButtonPressed(pos) ==
  MouseEvent("ButtonPressed", pos, 0, on_button_pressed(state, layout, pos))

ButtonReleased(pos) ==
  MouseEvent("ButtonReleased", pos, 0, on_button_released(state))

CursorMoved(pos) ==
  MouseEvent("CursorMoved", pos, 0, on_cursor_moved(state, layout, pos))

\* One message from the toolbar or the keyboard: update changes the model to
\* m, the view is rebuilt and diffed.
KeyMessage(msg, m) ==
  /\ inputs < MaxInputs
  /\ inputs' = inputs + 1
  /\ view_mode' = m.view_mode
  /\ pan' = m.pan
  /\ state' = sync(state, m.view_mode, m.pan)
  /\ shell' = <<>>
  /\ lastEvent' = [ev |-> msg, y |-> 0, status |-> "Ignored"]
  /\ zoom_run' = NoZoomRun(state')
  /\ UNCHANGED layout
  /\ ViewUnchanged

\* update: AppMessage::ZoomIn, ZoomOut, ZoomReset, ZoomFit
ZoomIn == KeyMessage("ZoomIn", zoom_in(view_mode, pan))

ZoomOut == KeyMessage("ZoomOut", zoom_out(view_mode, pan))

ZoomReset ==
  KeyMessage("ZoomReset", [view_mode |-> ViewMode_ActualSize, pan |-> <<0, 0>>])

ZoomFit == KeyMessage("ZoomFit", [view_mode |-> ViewMode_Fit, pan |-> <<0, 0>>])

\* update: AppMessage::PanLeft, PanRight, PanUp, PanDown
PanBy(direction) ==
  KeyMessage("Pan",
    [view_mode |-> view_mode,
     pan |-> CASE direction = "Left" -> <<pan[1] - config_pan_step, pan[2]>>
               [] direction = "Right" -> <<pan[1] + config_pan_step, pan[2]>>
               [] direction = "Up" -> <<pan[1], pan[2] - config_pan_step>>
               [] direction = "Down" -> <<pan[1], pan[2] + config_pan_step>>])

\* update: AppMessage::PanReset
PanReset == KeyMessage("PanReset", [view_mode |-> view_mode, pan |-> <<0, 0>>])

\* The window is resized: the layout gives the viewer new bounds.
Resize(size) ==
  /\ inputs < MaxInputs
  /\ size # layout.bounds
  /\ inputs' = inputs + 1
  /\ layout' = [layout EXCEPT !.bounds = size]
  /\ shell' = <<>>
  /\ lastEvent' = [ev |-> "Resize", y |-> 0, status |-> "Ignored"]
  /\ zoom_run' = NoZoomRun(state)
  /\ UNCHANGED <<state, view_mode, pan>>
  /\ ViewUnchanged

\* The document is turned by a quarter: the handle the viewer shows has its
\* sides swapped; the view is rebuilt and diffed.
ImageTurned ==
  /\ inputs < MaxInputs
  /\ inputs' = inputs + 1
  /\ layout' = [layout EXCEPT !.image = <<layout.image[2], layout.image[1]>>]
  /\ state' = sync(state, view_mode, pan)
  /\ shell' = <<>>
  /\ lastEvent' = [ev |-> "ImageTurned", y |-> 0, status |-> "Ignored"]
  /\ zoom_run' = NoZoomRun(state')
  /\ UNCHANGED <<view_mode, pan>>
  /\ ViewUnchanged

NextView ==
  \/ \E pos \in Positions, y \in ScrollY : WheelScrolled(pos, y)
  \/ \E pos \in Positions : ButtonPressed(pos)
  \/ \E pos \in Positions : ButtonReleased(pos)
  \/ \E pos \in Positions : CursorMoved(pos)
  \/ ZoomIn
  \/ ZoomOut
  \/ ZoomReset
  \/ ZoomFit
  \/ \E direction \in PanDirections : PanBy(direction)
  \/ PanReset
  \/ \E size \in BoundsSizes : Resize(size)
  \/ ImageTurned

SpecView == InitView /\ [][NextView]_vars

\* ------------------------------------------ the viewer under wheel zoom-ins
\* The scales a viewer starts with: the external scale given to with_state,
\* from the smallest to the largest the model and the viewer produce.
StartScales == {config_min_scale, min_scale, ScaleOne, config_max_scale, max_scale}

InitZoomIn ==
  \E s \in StartScales :
    /\ fileMtime = DocFs
    /\ diskCache = EmptyCache
    /\ document = open_document(DocFs, "c.png")
    /\ current_path = ""
    /\ error = FALSE
    /\ folder_entries = <<>>
    /\ current_index = None
    /\ nav_bar_active = FALSE
    /\ pending = EmptyBag
    /\ lastCall = NoCall
    /\ seqCalls = 0
    /\ lastOp = NoOp
    /\ budget = NoBudget
    /\ view_mode = IF s = ScaleOne THEN ViewMode_Fit ELSE ViewMode_Custom(s)
    /\ pan = <<0, 0>>
    /\ state = viewer_state(s, <<0, 0>>)
    /\ layout = Layout0
    /\ shell = <<>>
    /\ lastEvent = NoEvent
    /\ inputs = 0
    /\ zoom_run = [from |-> s, n |-> 0]
    /\ metadata = NoMeta

\* The wheel scrolls up with the cursor at the centre of the viewport.
ZoomInStep == WheelScrolled(center(layout.bounds), 1)

\* The user keeps scrolling up over the viewport.
SpecZoomIn ==
  /\ InitZoomIn
  /\ [][ZoomInStep]_vars
  /\ WF_vars(ZoomInStep)

\* ------------------------------ the viewer and the state given from outside
\* How far from the viewer's own state the external state is set: in scale,
\* in offset x and in offset y, in units of the epsilons.
ExtDeltas ==
  {<<0, 0, 0>>, <<1, 0, 0>>, <<-1, 0, 0>>, <<2, 0, 0>>, <<-2, 0, 0>>,
   <<0, 1, 0>>, <<0, -1, 0>>, <<0, 2, 0>>, <<0, 0, 1>>, <<0, 0, -2>>,
   <<1, 1, 1>>, <<-1, 1, -1>>}

\* The model's zoom and pan are set from outside to values d away from the
\* viewer's state; the view is rebuilt with Viewer::with_state and diffed.
ExternalState(d) ==
  LET ext_scale == state.scale + d[1]
      ext_offset == <<state.current_offset[1] + d[2], state.current_offset[2] + d[3]>>
  IN /\ inputs < MaxInputs
     /\ inputs' = inputs + 1
     /\ view_mode' = ViewMode_Custom(ext_scale)
     /\ pan' = ext_offset
     /\ state' = diff(state, ext_scale, ext_offset)
     /\ shell' = <<>>
     /\ lastEvent' = [ev |-> "ExternalState", y |-> 0, status |-> "Ignored"]
     /\ zoom_run' = NoZoomRun(state')
     /\ UNCHANGED layout
     /\ ViewUnchanged

NextSync ==
  \/ \E pos \in Positions : ButtonPressed(pos)
  \/ \E pos \in Positions : ButtonReleased(pos)
  \/ \E pos \in Positions : CursorMoved(pos)
  \/ \E d \in ExtDeltas : ExternalState(d)
  \/ ZoomIn
  \/ ZoomOut
  \/ ZoomReset
  \/ ZoomFit
  \/ \E direction \in PanDirections : PanBy(direction)
  \/ PanReset

SpecSync == InitView /\ [][NextSync]_vars

\* ------------------------- one document: thumbnails, transforms and pages
\* A caller has opened the PDF.
InitDocThumbs ==
  /\ InitDoc
  /\ document = open_document(DocFs, "a.pdf")

\* The caller generates thumbnails, turns and flips the document and moves
\* between its pages, in any order.
NextDocThumbs ==
  \/ \E n \in 0..MaxPages : ApiGenerateThumbnailPage(n)
  \/ ApiGenerateAllThumbnails
  \/ Rotate("Cw90")
  \/ Flip("Horizontal")
  \/ \E page \in 0..MaxPages : GoToPage(page)

SpecDocThumbs == InitDocThumbs /\ [][NextDocThumbs]_vars

\* ------------------------------------- the model under opening and navigation
\* The OpenPath / NextDocument / PrevDocument messages and file removals of
\* one run of SpecNav.
MaxNavEvents == 3

\* DocumentContent::extract_meta(path): the DocumentMeta of the file the
\* document was opened from.
extract_meta(doc, path) == [some |-> TRUE, path |-> path, ver |-> doc.ver]

\* refresh_metadata (update.rs)
refresh_metadata(m) ==
  [m EXCEPT !.metadata = IF m.document # NoDoc /\ m.current_path # ""
                         THEN extract_meta(m.document, m.current_path)
                         ELSE NoMeta]

\* AppMessage::RefreshMetadata
RefreshMetadata ==
  /\ metadata' = refresh_metadata(model).metadata
  /\ UNCHANGED <<viewVars, fileMtime, diskCache, document, appVars, lastCall, seqCalls,
                 lastOp, budget>>

\* Noctua::init as in Init, with MaxNavEvents events to come.
InitNav ==
  /\ fileMtime = InitFs
  /\ diskCache = EmptyCache
  /\ \E ip \in {"none", "dir"} \cup Files :
       LET o == CASE ip = "none" ->
                       [m |-> AppModel_new, folder_entries |-> <<>>, current_index |-> None]
                  [] ip = "dir" -> open_from_directory(AppModel_new, InitFs)
                  [] OTHER -> open_single_file(AppModel_new, InitFs, ip, <<>>, None)
       IN /\ document = o.m.document
          /\ current_path = o.m.current_path
          /\ error = o.m.error
          /\ folder_entries = o.folder_entries
          /\ current_index = o.current_index
          /\ pending = start_thumbnail_generation_task(o.m.document, 0)
  /\ nav_bar_active = FALSE
  /\ lastCall = NoCall
  /\ lastOp = NoOp
  /\ seqCalls = 0
  /\ budget = [opens |-> 0, events |-> MaxEvents - MaxNavEvents]
  /\ ViewIdle

NextNav ==
  \/ \E p \in Files : OpenPath(p)
  \/ NextDocument
  \/ PrevDocument
  \/ RefreshMetadata
  \/ \E p \in PdfFiles : Remove(p)
  \/ ZoomIn
  \/ PanBy("Right")

SpecNav == InitNav /\ [][NextNav]_vars

\* ====================================================================== claims
Thumbs == document.thumbnail_cache.v
IsPortable == document.kind = "Portable"

\* C1 (as claimed): in every reachable state of a Portable document, entry i of
\* the ThumbnailSet is the thumbnail of page i (or the placeholder that stands
\* for a page that failed to rasterize).
C1_EntryIsItsPage ==
  IsPortable =>
    \A i \in 1..Len(Thumbs) : Thumbs[i] = Placeholder \/ Thumbs[i].page = i - 1

\* C2 (as claimed): handling a GenerateThumbnailPage message whose chain was
\* started for an earlier document appends nothing to the ThumbnailSet of the
\* document now open, leaves the disk cache as it is and schedules nothing.
C2_StaleStepIsNoOp ==
  [][\A m \in Messages :
       (HandleGenerateThumbnailPage(m) /\ m.gen # budget.opens) =>
         /\ document'.thumbnail_cache.v = Thumbs
         /\ diskCache' = diskCache
         /\ pending' = pending (-) SetToBag({m})]_vars

\* C3: for a Portable document the ThumbnailSet is never longer than
\* page_count, and thumbnails_ready() holds exactly when the two are equal.
C3_LengthAndReady ==
  IsPortable =>
    /\ thumbnails_loaded(document) <= page_count(document)
    /\ thumbnails_ready(document) <=> (thumbnails_loaded(document) = page_count(document))

\* C3 witness: all thumbnails present after calls that were not made in page order.
C3_Witness ==
  IsPortable /\ seqCalls = -1 /\ thumbnails_ready(document)
    /\ thumbnails_loaded(document) = page_count(document)

\* C4: on a freshly opened N-page document the calls 0, 1, .., N-1 in this
\* order give, after call k, a ThumbnailSet of length k+1 and the return value
\* Some(k+1) for k < N-1 and None for k = N-1; thumbnails_ready() is false
\* before call N-1 and true after it.
C4_InOrderSequence ==
  IsPortable =>
    /\ seqCalls = 0 => thumbnails_loaded(document) = 0 /\ ~thumbnails_ready(document)
    /\ \A k \in 0..(page_count(document) - 1) :
         seqCalls = k + 1 =>
           /\ lastCall.page = k
           /\ lastCall.lenBefore = k
           /\ thumbnails_loaded(document) = k + 1
           /\ lastCall.ret = (IF k < page_count(document) - 1 THEN k + 1 ELSE None)
           /\ thumbnails_ready(document) <=> (k = page_count(document) - 1)

\* C4 witness: the whole sequence was run on a document of more than one page.
C4_Witness ==
  /\ IsPortable /\ page_count(document) > 1
  /\ seqCalls = page_count(document)
  /\ lastCall.page = page_count(document) - 1 /\ lastCall.ret = None
  /\ thumbnails_ready(document)

\* No GenerateThumbnailPage message is held by the runtime.
NoStepPending == \A m \in Messages : ~BagIn(m, pending)

\* C5: under fair delivery, a Portable document that stays installed gets all
\* its thumbnails: from some point on the installed document, if Portable, has
\* thumbnails_ready() (a document that is replaced is not one the claim speaks
\* of, and only finitely many are installed). And handling the step for the
\* last page schedules no further GenerateThumbnailPage message.
C5_ChainCompletes ==
  /\ <>[](IsPortable => thumbnails_ready(document))
  /\ [][\A m \in Messages :
          (HandleGenerateThumbnailPage(m) /\ IsPortable
             /\ m.page = page_count(document) - 1) =>
            pending' = pending (-) SetToBag({m})]_vars

\* C5 witness: a document of several pages is ready and no step is left.
C5_Witness ==
  IsPortable /\ page_count(document) > 1 /\ thumbnails_ready(document) /\ NoStepPending

\* C6: generate_thumbnail_page(n) returns Some(n+1) exactly when
\* n+1 < page_count and None otherwise; with n >= page_count it returns None
\* and the ThumbnailSet is as long as before.
C6_ReturnValue ==
  [][\A n \in 0..MaxPages :
       (IsPortable /\ lastCall'.page = n /\ ApiGenerateThumbnailPage(n)) =>
         /\ lastCall'.ret = (IF n + 1 < page_count(document) THEN n + 1 ELSE None)
         /\ n >= page_count(document) =>
              /\ lastCall'.ret = None
              /\ document'.thumbnail_cache.v = Thumbs]_vars

\* C6 witness: a call with n >= page_count has returned.
C6_Witness ==
  IsPortable /\ lastCall.page # None /\ lastCall.page >= page_count(document)
    /\ lastCall.ret = None

\* C7: generate_thumbnail_page(n) for a page already in the ThumbnailSet
\* changes neither the set nor the cache and does no load, rasterization or
\* save, returning only the next pointer; and while the document stays open an
\* entry once present keeps its value.
C7_PresentPageIsNoOp ==
  /\ [][\A n \in 0..MaxPages :
          (/\ IsPortable /\ n < thumbnails_loaded(document)
           /\ lastCall'.page = n /\ ApiGenerateThumbnailPage(n)) =>
            /\ document'.thumbnail_cache.v = Thumbs
            /\ diskCache' = diskCache
            /\ lastCall'.work = NoWork
            /\ lastCall'.ret = next_page(document, n)]_vars
  /\ [][(IsPortable /\ budget'.opens = budget.opens) =>
          \A i \in 1..Len(Thumbs) :
            /\ i <= Len(document'.thumbnail_cache.v)
            /\ document'.thumbnail_cache.v[i] = Thumbs[i]]_vars

\* C7 witness: a call for a page that was already present has returned.
C7_Witness ==
  IsPortable /\ lastCall.page # None /\ lastCall.page < lastCall.lenBefore
    /\ ~lastCall.generated

\* What C8 says of the hit case: the cached image is appended, nothing is
\* rasterized or saved.
C8_HitCase(n) ==
  /\ document'.thumbnail_cache.v =
       Append(Thumbs, PngDecode(diskCache[cache_key(fileMtime, document.source_path, n)]))
  /\ diskCache' = diskCache
  /\ lastCall'.work.hit /\ ~lastCall'.work.rendered /\ lastCall'.work.saves = 0

\* The cache differs from before at most at the fingerprint of (path, mtime, n).
C8_OnlyOwnEntry(n) ==
  \A k \in (DOMAIN diskCache) \cup (DOMAIN diskCache') :
    k # cache_key(fileMtime, document.source_path, n) =>
      k \in DOMAIN diskCache /\ k \in DOMAIN diskCache' /\ diskCache'[k] = diskCache[k]

C8_Generates(n) ==
  /\ IsPortable /\ n = thumbnails_loaded(document) /\ n < page_count(document)
  /\ lastCall'.page = n /\ ApiGenerateThumbnailPage(n)

\* C8 (as claimed): when page n is generated, a decodable cache entry is
\* appended as it is, with no rasterization and no save; otherwise page n is
\* rasterized at the thumbnail scale, one save under its fingerprint is
\* attempted and the rasterized image is appended.
C8_Original ==
  [][\A n \in 0..MaxPages :
       C8_Generates(n) =>
         IF load_hits(diskCache, fileMtime, document.source_path, n)
         THEN C8_HitCase(n)
         ELSE /\ lastCall'.work.rendered /\ lastCall'.work.saves = 1
              /\ C8_OnlyOwnEntry(n)
              /\ document'.thumbnail_cache.v =
                   Append(Thumbs, RenderedPage(document.source_path, document.ver, n,
                                               PDF_THUMBNAIL_SIZE))]_vars

\* C8 (amended): as claimed for the hit case; on a miss the rasterization of
\* page n at the thumbnail scale is attempted: when it succeeds, one save under
\* the page's fingerprint is attempted and the rasterized image is appended;
\* when it fails, no save is attempted, the cache is untouched and the 1x1
\* transparent placeholder is appended.
C8_Amended ==
  [][\A n \in 0..MaxPages :
       C8_Generates(n) =>
         IF load_hits(diskCache, fileMtime, document.source_path, n)
         THEN C8_HitCase(n)
         ELSE /\ lastCall'.work.rendered /\ ~lastCall'.work.hit
              /\ IF lastCall'.work.renderOk
                 THEN /\ lastCall'.work.saves = 1
                      /\ C8_OnlyOwnEntry(n)
                      /\ document'.thumbnail_cache.v =
                           Append(Thumbs, RenderedPage(document.source_path,
                                                       document.ver, n, PDF_THUMBNAIL_SIZE))
                 ELSE /\ lastCall'.work.saves = 0
                      /\ diskCache' = diskCache
                      /\ document'.thumbnail_cache.v = Append(Thumbs, Placeholder)]_vars

\* C8 witness: a page was appended from the cache, after an earlier document
\* had rasterized and saved it.
C8_Witness ==
  IsPortable /\ lastCall.generated /\ lastCall.work.hit /\ budget.opens > 0
    /\ Thumbs[lastCall.page + 1].page = lastCall.page

\* C9: whatever fails inside generate_thumbnail_page(n) for the page that is
\* due (n = length < page_count), the call appends exactly one entry and
\* returns the next pointer of the success case; so N calls in page order end
\* with thumbnails_ready().
C9_FailuresDoNotStall ==
  /\ [][\A n \in 0..MaxPages :
          C8_Generates(n) =>
            /\ Len(document'.thumbnail_cache.v) = Len(Thumbs) + 1
            /\ lastCall'.ret = (IF n + 1 < page_count(document) THEN n + 1 ELSE None)]_vars
  /\ [](IsPortable /\ seqCalls = page_count(document) => thumbnails_ready(document))

\* C9 witness: the in-order sequence ended ready although a rasterization or a
\* cache write failed on the way.
C9_Witness ==
  /\ IsPortable /\ seqCalls = page_count(document) /\ thumbnails_ready(document)
  /\ \/ \E i \in 1..Len(Thumbs) : Thumbs[i] = Placeholder
     \/ \E k \in DOMAIN diskCache : ~PngDecodes(diskCache[k])
     \/ (lastCall.generated /\ lastCall.work.saves = 1 /\ ~lastCall.work.saveOk)

\* C10 (as claimed): right after a save that reported success following a miss,
\* load for the same (path, page) returns the image that was saved; and a load
\* that returns an image keeps returning that image from one state to the next
\* while the file's modification time is the same and the cache is not cleared.
C10_CacheRoundTrip ==
  /\ [][\A n \in 0..MaxPages :
          (/\ IsPortable /\ lastCall'.page = n /\ lastCall'.work.saveOk
           /\ ApiGenerateThumbnailPage(n)) =>
            /\ ~load_hits(diskCache, fileMtime, document.source_path, n)
            /\ load_hits(diskCache', fileMtime', document.source_path, n)
            /\ load_thumbnail(diskCache', fileMtime', document.source_path, n)
                 = create_image_handle_from_image(
                     render_page_at_scale(document, n, "None", PDF_THUMBNAIL_SIZE))]_vars
  /\ [][\A p \in PdfFiles, n \in 0..(MaxPages - 1) :
          (/\ load_hits(diskCache, fileMtime, p, n)
           /\ fileMtime'[p] = fileMtime[p]
           /\ ~ClearCache) =>
            /\ load_hits(diskCache', fileMtime', p, n)
            /\ load_thumbnail(diskCache', fileMtime', p, n)
                 = load_thumbnail(diskCache, fileMtime, p, n)]_vars

\* C11 (as claimed): when the modification time of a source file changes, load
\* for every page of that path returns None right after the change (nothing
\* was saved under the new time yet), so an entry saved under the old time is
\* not returned for the edited file.
C11_MtimeChangeInvalidates ==
  [][\A p \in PdfFiles, n \in 0..(MaxPages - 1) :
       (fileMtime[p] > 0 /\ fileMtime'[p] # fileMtime[p]) =>
         ~load_hits(diskCache', fileMtime', p, n)]_vars

\* The image generate_thumbnail_page(n) rasterizes for the open document.
C12_Regenerated(n) ==
  create_image_handle_from_image(render_page_at_scale(document, n, "None", PDF_THUMBNAIL_SIZE))

\* Page n is generated while an undecodable file lies at its fingerprint's path.
C12_GeneratesOverCorrupt(n) ==
  /\ IsPortable
  /\ load_corrupt(diskCache, fileMtime, document.source_path, n)
  /\ C8_Generates(n)

\* C12 (as claimed): an undecodable cache file is a miss, no error is raised,
\* the page is regenerated, the save overwrites the file and the next load for
\* the fingerprint returns the regenerated image.
C12_Original ==
  [][\A n \in 0..MaxPages :
       C12_GeneratesOverCorrupt(n) =>
         /\ ~lastCall'.work.hit /\ lastCall'.work.rendered
         /\ Len(document'.thumbnail_cache.v) = Len(Thumbs) + 1
         /\ load_hits(diskCache', fileMtime', document.source_path, n)
         /\ load_thumbnail(diskCache', fileMtime', document.source_path, n)
              = C12_Regenerated(n)]_vars

\* C12 (amended): an undecodable cache file is a miss, no error is raised and
\* one entry is appended for the page. When the rasterization succeeds one save
\* is attempted; when it fails none is and the file is left as it was. After
\* the call either the next load returns the regenerated image, which is the
\* entry appended (the PNG was written completely), or the file at the
\* fingerprint's path is still undecodable and load keeps missing.
C12_Amended ==
  [][\A n \in 0..MaxPages :
       C12_GeneratesOverCorrupt(n) =>
         /\ ~lastCall'.work.hit /\ lastCall'.work.rendered
         /\ Len(document'.thumbnail_cache.v) = Len(Thumbs) + 1
         /\ lastCall'.work.saves = (IF lastCall'.work.renderOk THEN 1 ELSE 0)
         /\ ~lastCall'.work.renderOk => diskCache' = diskCache
         /\ IF load_hits(diskCache', fileMtime', document.source_path, n)
            THEN /\ load_thumbnail(diskCache', fileMtime', document.source_path, n)
                      = C12_Regenerated(n)
                 /\ document'.thumbnail_cache.v = Append(Thumbs, C12_Regenerated(n))
            ELSE load_corrupt(diskCache', fileMtime', document.source_path, n)]_vars

\* C12 witness: a page was regenerated over an undecodable file and load now
\* returns the regenerated image.
C12_Witness ==
  /\ IsPortable /\ lastCall.generated /\ lastCall.work.corrupt /\ lastCall.work.saves = 1
  /\ load_hits(diskCache, fileMtime, document.source_path, lastCall.page)
  /\ load_thumbnail(diskCache, fileMtime, document.source_path, lastCall.page)
       = Thumbs[Len(Thumbs)]

\* C13 (as claimed): has_thumbnail is true exactly when load_thumbnail would
\* return an image, for every page of every source file.
C13_ExistsIffLoads ==
  \A p \in PdfFiles, n \in 0..(MaxPages - 1) :
    has_thumbnail(diskCache, fileMtime, p, n) <=> load_hits(diskCache, fileMtime, p, n)

\* The incremental pipeline run to its end without interleaving: the call for
\* page, then the call for the page it returns, until a call returns None.
RECURSIVE C14_Pipeline(_, _, _, _, _)
C14_Pipeline(doc, cache, fs, page, outs) ==
  LET r == generate_thumbnail_page(doc, cache, fs, page, outs[page][1], outs[page][2])
  IN IF r.ret = None THEN [doc |-> r.doc, cache |-> r.cache]
     ELSE C14_Pipeline(r.doc, r.cache, fs, r.ret, outs)

\* C14: in every reachable state of a Portable document and for every outcome
\* of the I/O of each page (within the failures the run has left),
\* generate_all_thumbnails ends with the document (its ThumbnailSet) and the
\* cache contents that the pipeline generate_page(0), generate_page(1), ..
\* ends with from this state, and with thumbnails_ready(); and a document on
\* which generate_all_thumbnails ran last is ready.
C14_AllEqualsPipeline ==
  IsPortable =>
    /\ \A outs \in OutsByFaults[MaxEvents - budget.events] :
         LET a == generate_all_thumbnails(document, diskCache, fileMtime, outs)
             q == C14_Pipeline(document, diskCache, fileMtime, 0, outs)
         IN /\ a.doc = q.doc
            /\ a.cache = q.cache
            /\ thumbnails_ready(a.doc)
    /\ lastCall.all => thumbnails_ready(document)

\* C14 witness: generate_all_thumbnails ran on a document that already held an
\* entry, and generated the rest.
C14_Witness ==
  /\ IsPortable /\ lastCall.all /\ lastCall.generated /\ seqCalls = -1
  /\ thumbnails_ready(document)


\* ---------------------------------------------------------------- C15
\* k quarter turns clockwise, one after the other.
RECURSIVE RotateTimes(_, _)
RotateTimes(px, k) == IF k = 0 THEN px ELSE RotateTimes(rotate90(px), k - 1)

\* The rotation a rotate, rotate_cw or rotate_ccw step asks for.
C15_Target(doc, op) ==
  CASE op.op = "rotate" -> op.arg
    [] op.op = "rotate_cw" -> Rotation_rotate_cw(doc.transform.rotation)
    [] op.op = "rotate_ccw" -> Rotation_rotate_ccw(doc.transform.rotation)

\* C15: a rotate of a Raster document from tracked rotation c to t turns the
\* pixels by exactly (t - c) mod 360, one of 0, 90, 180, 270 (it never reaches
\* the unreachable branch), leaves them alone when that is 0, tracks t
\* afterwards, and keeps the sum of the physical rotations since open
\* congruent to the tracked rotation modulo 360.
C15_RasterRotateDiff ==
  [][(/\ document.kind = "Raster"
      /\ lastOp'.op \in {"rotate", "rotate_cw", "rotate_ccw"}
      /\ (\/ \E t \in Rotation : Rotate(t)
          \/ RotateCw
          \/ RotateCcw))
     => LET c == document.transform.rotation
            t == C15_Target(document, lastOp')
            d == (to_degrees(t) - to_degrees(c)) % 360
        IN /\ d \in {0, 90, 180, 270}
           /\ document'.kind = "Raster"
           /\ document'.rendered.px = RotateTimes(document.rendered.px, d \div 90)
           /\ (d = 0 => document'.rendered = document.rendered)
           /\ document'.transform.rotation = t
           /\ lastOp.sum % 360 = to_degrees(c)
           /\ lastOp'.sum % 360 = to_degrees(t)]_vars

\* C15 witness: a Raster document, flipped and then asked for 270 degrees,
\* shows the source turned by 270 degrees after the mirror.
C15_Witness ==
  /\ document.kind = "Raster"
  /\ lastOp.op = "rotate"
  /\ lastOp.arg = "Cw270"
  /\ lastOp.sum = 270
  /\ document.transform = [rotation |-> "Cw270", flip_h |-> TRUE, flip_v |-> FALSE]
  /\ document.rendered.px = rotate270(flip_horizontal(SourcePixels))


\* ---------------------------------------------------------------- C16
IsOpenDoc == document.kind \in {"Raster", "Vector", "Portable"}

\* What a viewer of the document can tell: the transform it reports, the
\* dimensions, the handle it hands out, and the surface behind it.
SameDisplay(a, b) ==
  /\ a.kind = b.kind
  /\ transform_state(a) = transform_state(b)
  /\ dimensions(a) = dimensions(b)
  /\ handle(a) = handle(b)
  /\ a.rendered = b.rendered

RotateCw4(doc) == rotate_cw(rotate_cw(rotate_cw(rotate_cw(doc))))

RotateCcw4(doc) == rotate_ccw(rotate_ccw(rotate_ccw(rotate_ccw(doc))))

\* C16: from every reachable document of every backend, four rotate_cw in a
\* row, and four rotate_ccw in a row, give back the TransformState, the
\* dimensions and the displayed image, and rotate_cw followed by rotate_ccw
\* changes nothing.
C16_RotationRoundTrips ==
  IsOpenDoc =>
    /\ SameDisplay(RotateCw4(document), document)
    /\ SameDisplay(RotateCcw4(document), document)
    /\ SameDisplay(rotate_ccw(rotate_cw(document)), document)

\* C16 witness: rotate_cw has brought a flipped document to 270 degrees, and
\* one more rotate_cw changes its dimensions, two more its image.
C16_Witness ==
  /\ IsOpenDoc
  /\ lastOp.op = "rotate_cw"
  /\ document.transform.rotation = "Cw270"
  /\ document.transform.flip_h
  /\ dimensions(rotate_cw(document)) # dimensions(document)
  /\ handle(rotate_cw(rotate_cw(document))) # handle(document)


\* ---------------------------------------------------------------- C17
\* C17: from every reachable document of every backend, flipping the same
\* axis twice in a row gives back the TransformState and the displayed image.
C17_FlipTwiceRestores ==
  IsOpenDoc =>
    \A direction \in FlipDirection :
      SameDisplay(flip(flip(document, direction), direction), document)

\* C17 witness: a turned document whose last step was the second vertical
\* flip, and which one more flip changes on screen.
C17_Witness ==
  /\ IsOpenDoc
  /\ lastOp.op = "flip"
  /\ lastOp.arg = "Vertical"
  /\ document.transform = [rotation |-> "Cw90", flip_h |-> TRUE, flip_v |-> FALSE]
  /\ handle(flip(document, "Vertical")) # handle(document)


\* ---------------------------------------------------------------- C18
\* The TransformState with the flag of one axis toggled.
Toggled(t, direction) ==
  IF direction = "Horizontal" THEN [t EXCEPT !.flip_h = ~@]
  ELSE [t EXCEPT !.flip_v = ~@]

\* C18: a flip step toggles the flag of its axis and leaves the tracked
\* rotation and the other flag alone; a rotate step leaves both flags alone
\* and tracks the rotation asked for; and from every reachable document
\* flipping horizontally then vertically gives the same TransformState and
\* the same displayed image as flipping vertically then horizontally.
C18_FlipAndRotateFrame ==
  [][/\ (IsOpenDoc /\ lastOp'.op = "flip" /\ \E direction \in FlipDirection : Flip(direction))
          => /\ document'.kind = document.kind
             /\ transform_state(document') =
                  Toggled(transform_state(document), lastOp'.arg)
     /\ (/\ IsOpenDoc
         /\ lastOp'.op \in {"rotate", "rotate_cw", "rotate_ccw"}
         /\ (\/ \E t \in Rotation : Rotate(t)
             \/ RotateCw
             \/ RotateCcw))
          => /\ document'.kind = document.kind
             /\ transform_state(document') =
                  [transform_state(document) EXCEPT
                     !.rotation = C15_Target(document, lastOp')]
     /\ IsOpenDoc =>
          SameDisplay(flip(flip(document, "Horizontal"), "Vertical"),
                      flip(flip(document, "Vertical"), "Horizontal"))]_vars

\* C18 witness: a Portable document turned by 90 degrees has just been
\* flipped horizontally, with the vertical flag set before, and the two
\* flips differ on screen.
C18_Witness ==
  /\ document.kind = "Portable"
  /\ lastOp.op = "flip"
  /\ lastOp.arg = "Horizontal"
  /\ lastOp.ok
  /\ document.transform = [rotation |-> "Cw90", flip_h |-> TRUE, flip_v |-> TRUE]
  /\ handle(flip(document, "Horizontal")) # handle(flip(document, "Vertical"))


\* ---------------------------------------------------------------- C19
\* A fresh rasterization of the retained source of a Vector or Portable
\* document (its current page, its current scale), flipped as the flags say
\* and turned by the tracked rotation afterwards.
FlipsThenRotation(doc) ==
  LET src == RenderedPage(doc.source_path, doc.ver,
                          IF doc.kind = "Portable" THEN doc.page_index ELSE 0,
                          IF doc.kind = "Vector" THEN doc.current_scale
                          ELSE PDF_RENDER_QUALITY)
      p1 == IF doc.transform.flip_h THEN flip_horizontal(src.px) ELSE src.px
      p2 == IF doc.transform.flip_v THEN flip_vertical(p1) ELSE p1
  IN [src EXCEPT !.px = RotateTimes(p2, to_degrees(doc.transform.rotation) \div 90)]

\* C19: after a rotate or flip step of a Vector or Portable document whose
\* re-rasterization succeeds, the displayed surface is the fresh
\* rasterization of the source with the flips applied first and the tracked
\* rotation afterwards, and the scale is the one before the step.
C19_FlipsThenRotation ==
  [][(/\ document.kind \in {"Vector", "Portable"}
      /\ lastOp'.op \in {"rotate", "rotate_cw", "rotate_ccw", "flip"}
      /\ lastOp'.ok
      /\ (\/ \E t \in Rotation : Rotate(t)
          \/ RotateCw
          \/ RotateCcw
          \/ \E direction \in FlipDirection : Flip(direction)))
     => /\ document'.rendered = FlipsThenRotation(document')
        /\ document'.current_scale = document.current_scale]_vars


\* ---------------------------------------------------------------- C20
\* C20: in every reachable state of every backend the handle is the one built
\* from the current surface and dimensions() are the surface's, and what
\* render hands out is built from the surface render leaves behind.
C20_HandleIsCurrent ==
  IsOpenDoc =>
    /\ handle(document) = create_image_handle_from_image(document.rendered)
    /\ dimensions(document) = image_dimensions(document.rendered)
    /\ \A scale \in RenderScales :
         LET r == render(document, scale) IN
           /\ r.handle = create_image_handle_from_image(r.doc.rendered)
           /\ <<r.width, r.height>> = image_dimensions(r.doc.rendered)

\* C20 witness: a Vector document, flipped and turned, has just been rendered
\* at twice the scale, and its handle is no longer the one it was opened with.
C20_Witness ==
  /\ document.kind = "Vector"
  /\ lastOp.op = "render"
  /\ lastOp.ok
  /\ document.current_scale = 200
  /\ document.transform = [rotation |-> "Cw90", flip_h |-> TRUE, flip_v |-> FALSE]
  /\ handle(document) # handle(open_document(fileMtime, document.source_path))
  /\ dimensions(document) = <<400, 600>>


\* ---------------------------------------------------------------- C21
\* C21: a rotate or flip step of a Vector or Portable document whose
\* re-rasterization fails leaves the surface, the handle and the dimensions
\* as they were, and the call still returns: the document is still the same
\* open document.
C21_FailedRerenderKeepsSurface ==
  [][(/\ document.kind \in {"Vector", "Portable"}
      /\ lastOp'.op \in {"rotate", "rotate_cw", "rotate_ccw", "flip"}
      /\ ~lastOp'.ok
      /\ (\/ \E t \in Rotation : Rotate(t)
          \/ RotateCw
          \/ RotateCcw
          \/ \E direction \in FlipDirection : Flip(direction)))
     => /\ document'.rendered = document.rendered
        /\ handle(document') = handle(document)
        /\ dimensions(document') = dimensions(document)
        /\ document'.kind = document.kind
        /\ document'.source_path = document.source_path]_vars

\* C21 witness: a PDF resting on a page that does not render has been
\* flipped; the flip failed to render and the surface is still page 0.
C21_Witness ==
  /\ document.kind = "Portable"
  /\ Unrenderable(document.source_path, document.page_index)
  /\ lastOp.op = "flip"
  /\ ~lastOp.ok
  /\ document.transform.flip_h
  /\ document.rendered.page = 0
  /\ handle(document) = document.rendered

\* ---------------------------------------------------------------- C22
\* C22: go_to_page(p) with p >= page_count fails and leaves the document,
\* its page index and surface included, as it was; with p < page_count the
\* current page becomes p; and in every reachable state of a Portable
\* document 0 <= current_page < page_count.
C22_GoToPageInRange ==
  /\ [](document.kind = "Portable" =>
          /\ 0 <= current_page(document)
          /\ current_page(document) < page_count(document))
  /\ [][\A page \in 0..MaxPages :
          (document.kind = "Portable" /\ lastOp'.op = "go_to_page" /\ GoToPage(page))
            => IF page >= page_count(document)
               THEN /\ document' = document
                    /\ ~lastOp'.ok
               ELSE /\ current_page(document') = page
                    /\ document'.num_pages = document.num_pages]_vars

\* C22 witness: a PDF all of whose pages render stands on its last page
\* after a go_to_page that failed, so the page asked for was out of range.
C22_Witness ==
  /\ document.kind = "Portable"
  /\ document.source_path = "a.pdf"
  /\ lastOp.op = "go_to_page"
  /\ ~lastOp.ok
  /\ current_page(document) = page_count(document) - 1
  /\ document.rendered.page = current_page(document)


\* ---------------------------------------------------------------- C23
\* The scale is within [min_scale, max_scale].
ScaleInRange(st) == min_scale <= st.scale /\ st.scale <= max_scale

\* On each axis the offset is at most max(0, (scaled image - viewport) / 2),
\* so it is 0 where the scaled image is not larger than the viewport.
OffsetClamped(st, lay) ==
  LET m == max_offset(lay.bounds, scaled_image_size(lay, st)) IN
    /\ Abs(st.current_offset[1]) <= m[1]
    /\ Abs(st.current_offset[2]) <= m[2]

\* C23: after every wheel event over the viewport, from whatever state the
\* viewer was in, the scale is within [min_scale, max_scale] and the offset
\* is within the bound computed with the new scale.
C23_WheelKeepsBounds ==
  [][(lastEvent'.ev = "WheelScrolled" /\ lastEvent'.status = "Captured")
       => /\ ScaleInRange(state')
          /\ OffsetClamped(state', layout')]_vars

\* ---------------------------------------------------------------- C24
\* C24: in every reachable state of the viewer, whatever the toolbar, the
\* keyboard, the window and the document did, the scale is within
\* [min_scale, max_scale] and the offset is clamped.
C24_AlwaysClamped ==
  /\ ScaleInRange(state)
  /\ OffsetClamped(state, layout)

\* ---------------------------------------------------------------- C25
\* A wheel event over the viewport with a vertical delta.
WheelStep == lastEvent'.ev = "WheelScrolled" /\ lastEvent'.status = "Captured"

\* The guard of the wheel handler: scrolling down above min_scale, or
\* scrolling up below max_scale.
WheelZooms(scale, y) ==
  (y < 0 /\ scale > min_scale) \/ (y > 0 /\ scale < max_scale)

\* C25 as stated: a wheel event over the viewport sets the scale to
\* old * (1 + scale_step) when scrolling up and old * (1 - scale_step) when
\* scrolling down, clamped to [min_scale, max_scale].
C25_Original ==
  [][(WheelStep /\ lastEvent'.y # 0)
       => state'.scale =
            Clamp(IF lastEvent'.y > 0
                  THEN Round(state.scale * (ScaleOne + scale_step), ScaleOne)
                  ELSE Round(state.scale * (ScaleOne - scale_step), ScaleOne),
                  min_scale, max_scale)]_vars

\* C25, amended: scrolling up below max_scale sets the scale to
\* old * (1 + scale_step), scrolling down above min_scale sets it to
\* old / (1 + scale_step), both clamped to [min_scale, max_scale]; every
\* other wheel event over the viewport leaves the scale as it is.
C25_Amended ==
  [][WheelStep
       => state'.scale =
            IF WheelZooms(state.scale, lastEvent'.y)
            THEN Clamp(IF lastEvent'.y > 0
                       THEN Round(state.scale * (ScaleOne + scale_step), ScaleOne)
                       ELSE Round(state.scale * ScaleOne, ScaleOne + scale_step),
                       min_scale, max_scale)
            ELSE state.scale]_vars

\* A wheel step down from scale 1.0 has given 1 / 1.1.
C25_Witness ==
  /\ lastEvent = [ev |-> "WheelScrolled", y |-> -1, status |-> "Captured"]
  /\ state.scale = Round(ScaleOne * ScaleOne, ScaleOne + scale_step)
  /\ state.scale # Round(ScaleOne * (ScaleOne - scale_step), ScaleOne)

\* ---------------------------------------------------------------- C26
\* C26: a wheel event scrolling up at max_scale, or down at min_scale,
\* changes neither the scale nor the offset and emits no notification; a
\* wheel event that changes the scale emits exactly one notification, which
\* carries the new scale and the clamped offset.
C26_LimitIsNoOpElseOneNotification ==
  [][WheelStep
       => /\ ((lastEvent'.y > 0 /\ state.scale = max_scale)
                 \/ (lastEvent'.y < 0 /\ state.scale = min_scale))
               => /\ state'.scale = state.scale
                  /\ state'.current_offset = state.current_offset
                  /\ shell' = <<>>
          /\ state'.scale # state.scale
               => /\ Len(shell') = 1
                  /\ shell'[1] = [scale |-> state'.scale,
                                   offset_x |-> state'.current_offset[1],
                                   offset_y |-> state'.current_offset[2]]
                  /\ OffsetClamped(state', layout')]_vars

\* After other input, a wheel event scrolling up at max_scale has been
\* captured and has emitted nothing.
C26_Witness ==
  /\ lastEvent = [ev |-> "WheelScrolled", y |-> 1, status |-> "Captured"]
  /\ state.scale = max_scale
  /\ shell = <<>>
  /\ inputs > 0

\* ---------------------------------------------------------------- C27
\* C27 as stated: from scale 1.0 one wheel zoom-in gives 1.1, and after ten
\* more zoom-ins the scale equals max_scale.
C27_Original ==
  zoom_run.from = ScaleOne
    => /\ zoom_run.n = 1 => state.scale = ScaleOne + scale_step
       /\ zoom_run.n = 11 => state.scale = max_scale

\* C27, amended: from scale 1.0 one wheel zoom-in gives 1.1, the scale is
\* still below max_scale after 24 zoom-ins and equals max_scale after 25 and
\* after every further one; a zoom-in never decreases the scale, and when
\* zoom-ins are repeated the scale reaches max_scale and stays there.
C27_Amended ==
  /\ [](zoom_run.from = ScaleOne
          => /\ zoom_run.n = 1 => state.scale = ScaleOne + scale_step
             /\ zoom_run.n = 24 => state.scale < max_scale
             /\ zoom_run.n >= 25 => state.scale = max_scale)
  /\ [][(WheelStep /\ lastEvent'.y > 0) => state'.scale >= state.scale]_vars
  /\ <>[](state.scale = max_scale)

\* Twenty-five zoom-ins in a row from scale 1.0 have reached max_scale.
C27_Witness ==
  /\ zoom_run = [from |-> ScaleOne, n |-> 25]
  /\ lastEvent = [ev |-> "WheelScrolled", y |-> 1, status |-> "Captured"]
  /\ state.scale = max_scale

\* ---------------------------------------------------------------- C28
\* C28: the cursor is grabbed exactly from a press of the primary button over
\* the viewport until the next release. A press over the viewport grabs at
\* the press position and a press outside it changes nothing; a release
\* during a drag, wherever the cursor is, ends the drag and emits exactly one
\* notification; a release or a pointer move without a drag changes no state
\* and emits nothing; no other event starts or ends a drag.
C28_DragFromPressToRelease ==
  [][/\ \A pos \in Positions :
          (lastEvent'.ev = "ButtonPressed" /\ ButtonPressed(pos))
            => IF position_over(layout.bounds, pos)
               THEN state'.cursor_grabbed_at = pos /\ shell' = <<>>
               ELSE state' = state /\ shell' = <<>>
     /\ \A pos \in Positions :
          (lastEvent'.ev = "ButtonReleased" /\ ButtonReleased(pos))
            => IF is_cursor_grabbed(state)
               THEN /\ ~is_cursor_grabbed(state')
                    /\ shell' = <<on_change(state)>>
                    /\ state' = [state EXCEPT !.cursor_grabbed_at = NoPoint]
               ELSE /\ state' = state /\ shell' = <<>>
                    /\ UNCHANGED <<view_mode, pan>>
     /\ (lastEvent'.ev = "CursorMoved" /\ ~is_cursor_grabbed(state))
          => /\ state' = state /\ shell' = <<>>
             /\ UNCHANGED <<view_mode, pan>>
     /\ lastEvent'.ev \notin {"ButtonPressed", "ButtonReleased"}
          => state'.cursor_grabbed_at = state.cursor_grabbed_at]_vars

\* A drag has just been ended by a release, with its one notification.
C28_Witness ==
  /\ lastEvent = [ev |-> "ButtonReleased", y |-> 0, status |-> "Captured"]
  /\ ~is_cursor_grabbed(state)
  /\ Len(shell) = 1
  /\ state.current_offset # <<0, 0>>

\* ---------------------------------------------------------------- C29
\* The offset a drag asks for when the pointer is at p: the baseline minus
\* the way from the press position to p.
DragTarget(st, p) ==
  <<st.starting_offset[1] - (p[1] - st.cursor_grabbed_at[1]),
    st.starting_offset[2] - (p[2] - st.cursor_grabbed_at[2])>>

\* C29: a press over the viewport takes the current offset as the baseline;
\* during the drag every pointer move to p sets the offset to
\* clamp(baseline - (p - press position)) and emits one notification; the
\* baseline and the press position stay as they are until the release or
\* the next press, so the offset depends on p only, not on earlier moves.
C29_DragOffsetFromBaseline ==
  [][/\ (lastEvent'.ev = "ButtonPressed" /\ lastEvent'.status = "Captured")
          => /\ state'.starting_offset = state.current_offset
             /\ state'.current_offset = state.current_offset
     /\ \A p \in Positions :
          (lastEvent'.ev = "CursorMoved" /\ is_cursor_grabbed(state) /\ CursorMoved(p))
            => /\ state'.current_offset =
                    clamp_offset(DragTarget(state, p), layout.bounds,
                                 scaled_image_size(layout, state))
               /\ state'.scale = state.scale
               /\ shell' = <<on_change(state')>>
     /\ (is_cursor_grabbed(state)
           /\ ~(lastEvent'.ev = "ButtonPressed" /\ lastEvent'.status = "Captured"))
          => /\ state'.starting_offset = state.starting_offset
             /\ lastEvent'.ev # "ButtonReleased"
                  => state'.cursor_grabbed_at = state.cursor_grabbed_at]_vars

\* During a drag a pointer move has put the offset where the pointer asked,
\* away from the baseline and inside the clamp.
C29_Witness ==
  /\ lastEvent = [ev |-> "CursorMoved", y |-> 0, status |-> "Captured"]
  /\ is_cursor_grabbed(state)
  /\ Len(shell) = 1
  /\ state.current_offset # state.starting_offset
  /\ \E p \in Positions :
       /\ p # state.cursor_grabbed_at
       /\ state.current_offset = DragTarget(state, p)

\* ---------------------------------------------------------------- C30
\* The external state differs from the viewer's by more than an epsilon, in
\* scale or on an axis of the offset.
ExternalDiffers(st, ext_scale, ext_offset) ==
  \/ Abs(st.scale - ext_scale) > SCALE_EPSILON
  \/ Abs(st.current_offset[1] - ext_offset[1]) > OFFSET_EPSILON
  \/ Abs(st.current_offset[2] - ext_offset[2]) > OFFSET_EPSILON

\* The events of the mouse, which the viewer handles itself.
MouseEvents == {"WheelScrolled", "ButtonPressed", "ButtonReleased", "CursorMoved"}

\* C30: when the model's zoom and pan are set from outside and the view is
\* diffed, the viewer takes them (scale, offset and baseline) if no drag is
\* active and they differ from its state by more than SCALE_EPSILON in scale
\* or OFFSET_EPSILON on an offset axis, and keeps its state as it is
\* otherwise; during a drag, only the mouse changes the state.
C30_ExternalAppliedOnlyIdleAndBeyondEpsilon ==
  [][lastEvent'.ev \notin MouseEvents
       => IF /\ ~is_cursor_grabbed(state)
             /\ ExternalDiffers(state, current_zoom(view_mode'), pan')
          THEN /\ state'.scale = current_zoom(view_mode')
               /\ state'.current_offset = pan'
               /\ state'.starting_offset = pan'
               /\ ~is_cursor_grabbed(state')
          ELSE state' = state]_vars

\* During a drag the model was given a state far from the viewer's, and the
\* viewer kept its own.
C30_Witness ==
  /\ is_cursor_grabbed(state)
  /\ lastEvent.ev \notin MouseEvents
  /\ lastEvent.ev # "none"
  /\ ExternalDiffers(state, current_zoom(view_mode), pan)

\* What a load of path has left when it is over: nothing of a document when
\* opening failed, and otherwise the freshly opened document of path, with no
\* error, no pan and the Fit mode.
LoadedOrCleared(path) ==
  IF OpenFails(fileMtime, path)
  THEN /\ document' = NoDoc
       /\ current_path' = ""
       /\ error'
  ELSE /\ document'.kind = from_path(path)
       /\ document'.source_path = path
       /\ document'.ver = fileMtime[path]
       /\ document'.page_index = 0
       /\ document'.transform = DefaultTransform
       /\ document'.thumbnail_cache = NoThumbs
       /\ current_path' = path
       /\ ~error'
       /\ pan' = <<0, 0>>
       /\ view_mode' = ViewMode_Fit

\* C31: a load that fails leaves no document, no current path and an error;
\* a load that succeeds leaves the new document in its freshly opened state,
\* no error, the pan at (0, 0) and the view mode Fit. Checked for OpenPath and
\* for the loads of NextDocument and PrevDocument.
C31_LoadInstallsOrClears ==
  [][budget'.opens # budget.opens
       => /\ \A p \in Files : OpenPath(p) => LoadedOrCleared(p)
          /\ (NextDocument \/ PrevDocument)
               => LoadedOrCleared(folder_entries[current_index' + 1])]_vars

\* A document was loaded after the user had zoomed or panned, and the view is
\* back at Fit with no pan.
C31_Witness ==
  /\ budget.opens > 0
  /\ inputs > 0
  /\ document.kind # "None"
  /\ ~error
  /\ view_mode = ViewMode_Fit
  /\ pan = <<0, 0>>

\* C32: while no other document was loaded since the start, so that a chain
\* restarted by ToggleNavBar runs over the same document as the chain still in
\* flight, every entry i of the ThumbnailSet is the thumbnail of page i and the
\* set is no longer than the document; a delivered step appends nothing or
\* exactly the page whose number is the length so far (so no page is appended
\* twice), and the cache directory changes only in a step that appends (so at
\* most one save per page).
C32_InterleavedChainsAppendOnce ==
  /\ [](budget.opens = 0 /\ IsPortable
         => /\ Len(Thumbs) <= document.num_pages
            /\ \A i \in 1..Len(Thumbs) :
                 Thumbs[i] = Placeholder \/ Thumbs[i].page = i - 1)
  /\ [][budget.opens = 0
         => \A m \in Messages :
              HandleGenerateThumbnailPage(m)
                => \/ /\ document'.thumbnail_cache.v = Thumbs
                      /\ diskCache' = diskCache
                   \/ /\ m.page = Len(Thumbs)
                      /\ Len(document'.thumbnail_cache.v) = Len(Thumbs) + 1
                      /\ SubSeq(document'.thumbnail_cache.v, 1, Len(Thumbs)) = Thumbs]_vars

\* The nav bar was made visible while the first chain had delivered page 0 and
\* was about to deliver page 1: the restarted chain's step for page 0 and the
\* first chain's step for page 1 are both in flight.
C32_Witness ==
  /\ budget.opens = 0
  /\ IsPortable
  /\ nav_bar_active
  /\ Len(Thumbs) = 1
  /\ BagIn(GenerateThumbnailPage(0, 0), pending)
  /\ BagIn(GenerateThumbnailPage(1, 0), pending)

\* C33: after an event whose notification update has applied, the model holds
\* Custom(scale) and the offset of the viewer's state, the synchronization of
\* the rebuilt view has left the state as the event handler left it, one more
\* synchronization would leave it unchanged again, and a step that is not a
\* pointer or wheel event publishes nothing.
C33_NotifyThenSyncIsStable ==
  [][/\ shell' # <<>>
        => /\ view_mode' = ViewMode_Custom(state'.scale)
           /\ pan' = state'.current_offset
           /\ sync(state', view_mode', pan') = state'
           /\ lastEvent'.ev = "WheelScrolled"
                => \A pos \in Positions :
                     WheelScrolled(pos, lastEvent'.y)
                       => state' = on_wheel_scrolled(state, layout, pos, lastEvent'.y).state
           /\ lastEvent'.ev = "CursorMoved"
                => \A pos \in Positions :
                     CursorMoved(pos) => state' = on_cursor_moved(state, layout, pos).state
     /\ lastEvent'.ev \notin MouseEvents => shell' = <<>>]_vars

\* A drag at a zoomed scale has published a notification with an offset, and
\* the model holds it.
C33_Witness ==
  /\ shell # <<>>
  /\ lastEvent.ev = "CursorMoved"
  /\ state.scale # ScaleOne
  /\ state.current_offset # <<0, 0>>
  /\ pan = state.current_offset

\* The document a caller gets who opens path, goes to page, flips as the
\* flags of t say and then rotates to the rotation of t.
FlippedThenRotated(path, page, t) ==
  LET d0 == open_document(fileMtime, path)
      d1 == IF page = 0 THEN d0 ELSE go_to_page(d0, page).doc
      d2 == IF t.flip_h THEN flip(d1, "Horizontal") ELSE d1
      d3 == IF t.flip_v THEN flip(d2, "Vertical") ELSE d2
  IN rotate(d3, t.rotation)

\* Every page of the open document renders and its file is as it was opened:
\* no surface of it is one a failed re-rasterization left behind.
AllPagesRender ==
  /\ document.kind \in {"Raster", "Vector", "Portable"}
  /\ document.ver = fileMtime[document.source_path]
  /\ \A page \in 0..MaxPages : ~Unrenderable(document.source_path, page)

\* C34: the pixels a document displays depend on its TransformState, not on
\* the operations that led to it (they are those of the same file opened
\* afresh, flipped and then rotated to the same state), and the same
\* operations on a document of any other backend give the same pixels.
C34_OrientationIsFunctionOfTransform ==
  AllPagesRender
    => /\ document.rendered.px
            = FlippedThenRotated(document.source_path, document.page_index,
                                 document.transform).rendered.px
       /\ \A path \in DocFiles :
            (~OpenFails(fileMtime, path) /\ path # "f.pdf")
              => FlippedThenRotated(path, 0, document.transform).rendered.px
                   = FlippedThenRotated(document.source_path, 0,
                                        document.transform).rendered.px

\* C35: the surface of a Portable document is always a rendering of its
\* current page, and a rotate, flip or page step of a Vector or Portable
\* document whose re-rasterization fails leaves the TransformState and the
\* current page as they were, together with the surface.
C35_StateDescribesSurface ==
  /\ [](document.kind = "Portable" => document.rendered.page = document.page_index)
  /\ [][(/\ document.kind \in {"Vector", "Portable"}
          /\ lastOp'.op \in {"rotate", "rotate_cw", "rotate_ccw", "flip", "go_to_page",
                              "next_page", "prev_page"}
          /\ ~lastOp'.ok
          /\ (\/ \E t \in Rotation : Rotate(t)
              \/ RotateCw
              \/ RotateCcw
              \/ \E direction \in FlipDirection : Flip(direction)
              \/ \E page \in 0..MaxPages : GoToPage(page)
              \/ NextPage
              \/ PrevPage))
         => /\ document'.transform = document.transform
            /\ document'.page_index = document.page_index
            /\ document'.rendered = document.rendered]_vars

\* A step of rotate, flip or go_to_page in SpecDocThumbs; every other step of
\* it is one of generate_thumbnail_page or generate_all_thumbnails.
TransformOrPageStep ==
  /\ lastCall' = lastCall
  /\ \/ Rotate("Cw90")
     \/ Flip("Horizontal")
     \/ \E page \in 0..MaxPages : GoToPage(page)

\* C36: a generate_thumbnail_page or generate_all_thumbnails step leaves the
\* current page, the TransformState, the surface and the handle as they were;
\* a rotate, flip or go_to_page step leaves the ThumbnailSet as it was; and
\* every thumbnail that was rendered shows its page unrotated and unflipped at
\* PDF_THUMBNAIL_SIZE, whatever the TransformState is.
C36_ThumbnailsAndViewApart ==
  /\ [](\A i \in 1..Len(Thumbs) :
          \/ Thumbs[i] = Placeholder
          \/ /\ Thumbs[i].px = SourcePixels
             /\ Thumbs[i].scale = PDF_THUMBNAIL_SIZE)
  /\ [][IF TransformOrPageStep
        THEN document'.thumbnail_cache = document.thumbnail_cache
        ELSE /\ document'.page_index = document.page_index
             /\ document'.transform = document.transform
             /\ document'.rendered = document.rendered
             /\ handle(document') = handle(document)]_vars

\* A PDF shown turned and mirrored on its second page, with the thumbnails
\* of all its pages generated and none of them a placeholder.
C36_Witness ==
  /\ IsPortable
  /\ document.transform.rotation = "Cw90"
  /\ document.transform.flip_h
  /\ document.page_index = 1
  /\ Len(Thumbs) = document.num_pages
  /\ \A i \in 1..Len(Thumbs) : Thumbs[i] # Placeholder
  /\ lastCall.generated

\* C37: there is cached metadata only while there is a document, it is that
\* of the current document as it was opened, and every load, successful or
\* failed, leaves no metadata.
C37_MetadataOfCurrentDocument ==
  /\ [](document = NoDoc => metadata = NoMeta)
  /\ [](metadata.some => /\ metadata.path = current_path
                         /\ metadata.ver = document.ver)
  /\ [][budget'.opens # budget.opens => metadata' = NoMeta]_vars

\* The fields of the model: everything but the history.
modelFields ==
  <<document, metadata, current_path, error, folder_entries, current_index, view_mode,
    pan>>

\* One step back in a folder of len entries, cyclically.
Before(len, i) == IF i > 0 THEN i - 1 ELSE len - 1

\* One step on in a folder of len entries, cyclically.
After(len, i) == IF i + 1 < len THEN i + 1 ELSE 0

\* C38: with folder entries and an index, the index is below their number;
\* NextDocument moves it one on and from the last entry to 0, PrevDocument
\* one back and from 0 to the last entry, whether the load succeeds or not,
\* so that the PrevDocument after a NextDocument is back at the index before;
\* and with no folder entries both leave the model as it is.
C38_NavigationIsCyclic ==
  /\ [](folder_entries # <<>> /\ current_index # None
          => 0 <= current_index /\ current_index < Len(folder_entries))
  /\ [][(NextDocument \/ PrevDocument)
          => IF folder_entries = <<>>
             THEN UNCHANGED modelFields
             ELSE /\ folder_entries' = folder_entries
                  /\ (current_index # None /\ NextDocument)
                       => /\ current_index' = After(Len(folder_entries), current_index)
                          /\ Before(Len(folder_entries'), current_index') = current_index
                  /\ (current_index # None /\ PrevDocument)
                       => /\ current_index' = Before(Len(folder_entries), current_index)
                          /\ After(Len(folder_entries'), current_index') = current_index]_vars

\* Navigation has moved to the last entry of the folder, a file that does
\* not open: the index is on it, and there is no document.
C38_Witness ==
  /\ Len(folder_entries) > 1
  /\ current_index = Len(folder_entries) - 1
  /\ OpenFails(fileMtime, folder_entries[current_index + 1])
  /\ document = NoDoc
  /\ error

====
